---- MODULE Spec2Model ----
(***************************************************************************)
(* Bit-packing integer compression: the consecutive, non-consecutive and   *)
(* overflow codecs of bit_packing.py and bit_packing_overflow.py.          *)
(*                                                                         *)
(* Python integers are unbounded and the packed words reach 2^32 - 1, so   *)
(* an integer is modelled as a sign and a magnitude, the magnitude being   *)
(* its binary digits, least significant first, without leading zeros       *)
(* (zero is the empty sequence).  The bitwise operators act on the         *)
(* infinite two's complement form, as Python's do.                         *)
(***************************************************************************)
EXTENDS Integers, Sequences, FiniteSets, TLC

\* ------------------------------------------------------------------------
\* Magnitudes: binary digit sequences, least significant digit first.
\* ------------------------------------------------------------------------

RECURSIVE Norm(_)
\* Strips the most significant zeros.
Norm(b) ==
    IF b = <<>> THEN <<>>
    ELSE IF b[Len(b)] = 1 THEN b
    ELSE Norm(SubSeq(b, 1, Len(b) - 1))

RECURSIVE NatBits(_)
\* The magnitude of a natural number small enough to be written as a literal.
NatBits(n) == IF n = 0 THEN <<>> ELSE <<n % 2>> \o NatBits(n \div 2)

RECURSIVE BitsNat(_)
\* The natural number of a magnitude (used only below 2^31).
BitsNat(b) == IF b = <<>> THEN 0 ELSE b[1] + 2 * BitsNat(Tail(b))

MagBit(b, i) == IF i + 1 <= Len(b) THEN b[i + 1] ELSE 0

RECURSIVE MagInc(_)
MagInc(b) ==
    IF b = <<>> THEN <<1>>
    ELSE IF b[1] = 0 THEN <<1>> \o Tail(b)
    ELSE <<0>> \o MagInc(Tail(b))

RECURSIVE MagDecRaw(_)
MagDecRaw(b) ==
    IF b[1] = 1 THEN <<0>> \o Tail(b)
    ELSE <<1>> \o MagDecRaw(Tail(b))

\* b - 1 for b > 0.
MagDec(b) == Norm(MagDecRaw(b))

RECURSIVE MagAddC(_, _, _)
MagAddC(a, b, c) ==
    IF a = <<>> /\ b = <<>> THEN (IF c = 1 THEN <<1>> ELSE <<>>)
    ELSE LET x == IF a = <<>> THEN 0 ELSE a[1]
             y == IF b = <<>> THEN 0 ELSE b[1]
             s == x + y + c
         IN  <<s % 2>> \o MagAddC(IF a = <<>> THEN <<>> ELSE Tail(a),
                                  IF b = <<>> THEN <<>> ELSE Tail(b),
                                  s \div 2)

MagAdd(a, b) == MagAddC(a, b, 0)

RECURSIVE MagSubB(_, _, _)
MagSubB(a, b, c) ==
    IF a = <<>> THEN <<>>
    ELSE LET y == IF b = <<>> THEN 0 ELSE b[1]
             d == a[1] - y - c
         IN  <<d % 2>> \o MagSubB(Tail(a),
                                  IF b = <<>> THEN <<>> ELSE Tail(b),
                                  IF d < 0 THEN 1 ELSE 0)

\* a - b for a >= b.
MagSub(a, b) == Norm(MagSubB(a, b, 0))

RECURSIVE MagLessFrom(_, _, _)
MagLessFrom(a, b, i) ==
    IF i = 0 THEN FALSE
    ELSE IF a[i] # b[i] THEN a[i] < b[i]
    ELSE MagLessFrom(a, b, i - 1)

MagLess(a, b) ==
    IF Len(a) # Len(b) THEN Len(a) < Len(b) ELSE MagLessFrom(a, b, Len(a))

\* ------------------------------------------------------------------------
\* Python integers.
\* ------------------------------------------------------------------------

PyInt(n, m) == [neg |-> n /\ m # <<>>, mag |-> m]

\* A literal.
P(n) == IF n < 0 THEN PyInt(TRUE, NatBits(-n)) ELSE PyInt(FALSE, NatBits(n))

Zero == PyInt(FALSE, <<>>)
One == PyInt(FALSE, <<1>>)

IsNeg(x) == x.neg
PyAbs(x) == PyInt(FALSE, x.mag)
PyNeg(x) == PyInt(~x.neg, x.mag)

PyLess(x, y) ==
    IF x.neg /\ ~y.neg THEN TRUE
    ELSE IF ~x.neg /\ y.neg THEN FALSE
    ELSE IF x.neg THEN MagLess(y.mag, x.mag)
    ELSE MagLess(x.mag, y.mag)

PyLeq(x, y) == x = y \/ PyLess(x, y)

PyAdd(x, y) ==
    IF x.neg = y.neg THEN PyInt(x.neg, MagAdd(x.mag, y.mag))
    ELSE IF MagLess(x.mag, y.mag) THEN PyInt(y.neg, MagSub(y.mag, x.mag))
    ELSE PyInt(x.neg, MagSub(x.mag, y.mag))

PySub(x, y) == PyAdd(x, PyNeg(y))

\* The value of a small Python integer as a number of the model.
ToInt(x) == IF x.neg THEN 0 - BitsNat(x.mag) ELSE BitsNat(x.mag)

\* Bit i of the infinite two's complement form.
TBit(x, i) == IF x.neg THEN 1 - MagBit(MagDec(x.mag), i) ELSE MagBit(x.mag, i)

\* The integer whose two's complement digits are bits[1..Len], extended
\* upwards by the digit sign.
FromTwos(bits, sign) ==
    IF sign = 0 THEN PyInt(FALSE, Norm(bits))
    ELSE PyInt(TRUE, MagInc(Norm([i \in 1..Len(bits) |-> 1 - bits[i]])))

Wider(x, y) == (IF Len(x.mag) > Len(y.mag) THEN Len(x.mag) ELSE Len(y.mag)) + 1

\* x & y
PyAnd(x, y) ==
    IF ~x.neg /\ ~y.neg
    THEN PyInt(FALSE, Norm([i \in 1..Len(x.mag) |-> IF MagBit(y.mag, i - 1) = 1 THEN x.mag[i] ELSE 0]))
    ELSE FromTwos([i \in 1..Wider(x, y) |-> IF TBit(x, i - 1) = 1 /\ TBit(y, i - 1) = 1 THEN 1 ELSE 0],
                  IF x.neg /\ y.neg THEN 1 ELSE 0)

\* x | y
PyOr(x, y) ==
    IF ~x.neg /\ ~y.neg
    THEN PyInt(FALSE, [i \in 1..(Wider(x, y) - 1) |->
                          IF MagBit(x.mag, i - 1) = 1 \/ MagBit(y.mag, i - 1) = 1 THEN 1 ELSE 0])
    ELSE FromTwos([i \in 1..Wider(x, y) |-> IF TBit(x, i - 1) = 1 \/ TBit(y, i - 1) = 1 THEN 1 ELSE 0],
                  IF x.neg \/ y.neg THEN 1 ELSE 0)

\* ~x = -x - 1
PyNot(x) == IF x.neg THEN PyInt(FALSE, MagDec(x.mag)) ELSE PyInt(TRUE, MagInc(x.mag))

\* x << n, n >= 0
Shl(x, n) == IF x.mag = <<>> THEN x ELSE PyInt(x.neg, [i \in 1..n |-> 0] \o x.mag)

\* x >> n, n >= 0 (rounds towards minus infinity)
Shr(x, n) ==
    IF ~x.neg THEN PyInt(FALSE, SubSeq(x.mag, n + 1, Len(x.mag)))
    ELSE FromTwos([i \in 1..(Len(x.mag) + 1) |-> TBit(x, i - 1 + n)], 1)

\* (1 << n) - 1
LowMask(n) == PySub(Shl(One, n), One)

\* math.floor(math.log2(x)) for an integer x > 0.  The float result is exact
\* enough for every magnitude up to 2^32, the range of the packed words.
floor_log2(x) == Len(x.mag) - 1

\* math.ceil(math.log2(x)) for an integer x > 0 (same range).
ceil_log2(x) ==
    IF \A i \in 1..(Len(x.mag) - 1) : x.mag[i] = 0 THEN Len(x.mag) - 1 ELSE Len(x.mag)

Min(a, b) == IF a < b THEN a ELSE b
Max(a, b) == IF a > b THEN a ELSE b

\* ------------------------------------------------------------------------
\* BitPackingBase: the shared helpers.
\* ------------------------------------------------------------------------

\* The width of a packed word.
WordBits == 32

RECURSIVE AnyNegative(_)
\* any(x < 0 for x in array)
AnyNegative(array) ==
    IF array = <<>> THEN FALSE
    ELSE IsNeg(Head(array)) \/ AnyNegative(Tail(array))

RECURSIVE MaxAbs(_)
\* max(abs(x) for x in array), array not empty
MaxAbs(array) ==
    IF Len(array) = 1 THEN PyAbs(array[1])
    ELSE LET m == MaxAbs(Tail(array))
             a == PyAbs(Head(array))
         IN  IF PyLess(a, m) THEN m ELSE a

\* A faulty _calculate_bits_needed: without a negative the width is
\* ceil(log2(max_abs_value)) + 1 where the code has floor, one bit too many
\* unless the largest magnitude is a power of two.
calculate_bits_needed_ceil(array) ==
    IF array = <<>> THEN 0
    ELSE LET has_negative == AnyNegative(array)
             max_abs_value == MaxAbs(array)
         IN  IF max_abs_value = Zero THEN 1
             ELSE IF has_negative THEN ceil_log2(PyAdd(max_abs_value, One)) + 1
             ELSE ceil_log2(max_abs_value) + 1

\* A faulty _calculate_bits_needed: with a negative in the array the width
\* is ceil(log2(max_abs_value)) + 1, the + 1 under the logarithm left out,
\* so a largest magnitude that is a power of two gets one bit too few.
calculate_bits_needed_tight(array) ==
    IF array = <<>> THEN 0
    ELSE LET has_negative == AnyNegative(array)
             max_abs_value == MaxAbs(array)
         IN  IF max_abs_value = Zero THEN 1
             ELSE IF has_negative THEN ceil_log2(max_abs_value) + 1
             ELSE floor_log2(max_abs_value) + 1

calculate_bits_needed(array) ==
    IF array = <<>> THEN 0
    ELSE LET has_negative == AnyNegative(array)
             max_abs_value == MaxAbs(array)
         IN  IF max_abs_value = Zero THEN 1
             ELSE IF has_negative THEN ceil_log2(PyAdd(max_abs_value, One)) + 1
             ELSE floor_log2(max_abs_value) + 1

extract_bits(value, start_bit, num_bits) ==
    LET mask == Shl(LowMask(num_bits), start_bit)
    IN  Shr(PyAnd(value, mask), start_bit)

set_bits(target, value, start_bit, num_bits) ==
    LET mask == Shl(LowMask(num_bits), start_bit)
        cleared == PyAnd(target, PyNot(mask))
        masked_value == Shl(PyAnd(value, LowMask(num_bits)), start_bit)
    IN  PyOr(cleared, masked_value)

\* A faulty OffsetEncode: the threshold added is 1 << bits, one bit above
\* the field.
OffsetEncodeAbove(value, bits, has_negative_numbers) ==
    IF has_negative_numbers /\ IsNeg(value)
    THEN PyAdd(Shl(One, bits), PyAbs(value))
    ELSE value

\* The offset encoding of a negative value: (1 << (bits - 1)) + abs(value).
OffsetEncode(value, bits, has_negative_numbers) ==
    IF has_negative_numbers /\ IsNeg(value)
    THEN PyAdd(Shl(One, bits - 1), PyAbs(value))
    ELSE value

\* A faulty OffsetDecode: the comparison with max_positive is >= where the
\* code has >, so the largest positive value decodes as a negative.
OffsetDecodeInclusive(value, bits, has_negative_numbers) ==
    IF has_negative_numbers
    THEN LET threshold == Shl(One, bits - 1)
             max_positive == PySub(threshold, One)
         IN  IF PyLeq(max_positive, value) THEN PyNeg(PySub(value, threshold)) ELSE value
    ELSE value

\* The decoding of a stored value: above threshold - 1 it is a negative.
OffsetDecode(value, bits, has_negative_numbers) ==
    IF has_negative_numbers
    THEN LET threshold == Shl(One, bits - 1)
             max_positive == PySub(threshold, One)
         IN  IF PyLess(max_positive, value) THEN PyNeg(PySub(value, threshold)) ELSE value
    ELSE value

\* What a call gives back: a value, or the exception it raises.
Return(v) == [raised |-> "none", value |-> v]
Raise(e) == [raised |-> e, value |-> Zero]

\* A faulty range check: it lets the index original_length through.
GetOutOfRangeInclusive(self, i) ==
    i < 0 \/ i > self.original_length \/ self.compressed_data = <<>>

\* The range check that opens every get.
GetOutOfRange(self, i) == i < 0 \/ i >= self.original_length \/ self.compressed_data = <<>>

\* ------------------------------------------------------------------------
\* BitPackingConsecutive
\* ------------------------------------------------------------------------

RECURSIVE ConsecutiveWrite(_, _, _)
\* The while loop of compress: writes the bits_to_write low bits of
\* value_to_write, most significant chunk first.
ConsecutiveWrite(st, value_to_write, bits_to_write) ==
    IF bits_to_write <= 0 THEN st
    ELSE LET bits_available_in_current == WordBits - st.current_bit_position
             bits_to_write_now == Min(bits_to_write, bits_available_in_current)
             current_integer == set_bits(st.current_integer,
                                         Shr(value_to_write, bits_to_write - bits_to_write_now),
                                         st.current_bit_position, bits_to_write_now)
             current_bit_position == st.current_bit_position + bits_to_write_now
         IN  ConsecutiveWrite(
                 IF current_bit_position >= WordBits
                 THEN [compressed |-> Append(st.compressed, current_integer),
                       current_integer |-> Zero, current_bit_position |-> 0]
                 ELSE [compressed |-> st.compressed,
                       current_integer |-> current_integer,
                       current_bit_position |-> current_bit_position],
                 value_to_write, bits_to_write - bits_to_write_now)

RECURSIVE ConsecutivePack(_, _, _, _, _)
\* The for loop of compress over array[k..].
ConsecutivePack(array, k, st, bits_per_element, has_negative_numbers) ==
    IF k > Len(array) THEN st
    ELSE ConsecutivePack(array, k + 1,
             ConsecutiveWrite(st, OffsetEncode(array[k], bits_per_element, has_negative_numbers),
                              bits_per_element),
             bits_per_element, has_negative_numbers)

\* BitPackingConsecutive.compress on a non-empty array: the fields it sets
\* and the stream it returns.
ConsecutiveCompress(array) ==
    LET has_negative_numbers == AnyNegative(array)
        bits_per_element == calculate_bits_needed(array)
        st == ConsecutivePack(array, 1,
                  [compressed |-> <<>>, current_integer |-> Zero, current_bit_position |-> 0],
                  bits_per_element, has_negative_numbers)
        compressed == IF st.current_bit_position > 0
                      THEN Append(st.compressed, st.current_integer)
                      ELSE st.compressed
    IN  [original_length |-> Len(array),
         has_negative_numbers |-> has_negative_numbers,
         bits_per_element |-> bits_per_element,
         compressed_data |-> compressed]

RECURSIVE ConsecutiveRead(_, _, _, _)
\* The while loop of decompress and of get: reads bits_to_read bits from the
\* position rd = [value, bits_read, bit, index], stopping at the end of the
\* stream.
ConsecutiveRead(compressed, rd, bits_to_read, bits_per_element) ==
    IF bits_to_read <= 0 THEN rd
    ELSE IF rd.index >= Len(compressed) THEN rd
    ELSE LET current_integer == compressed[rd.index + 1]
             bits_available == WordBits - rd.bit
             bits_to_read_now == Min(bits_to_read, bits_available)
             extracted == extract_bits(current_integer, rd.bit, bits_to_read_now)
             shift_amount == bits_per_element - rd.bits_read - bits_to_read_now
             bit == rd.bit + bits_to_read_now
         IN  ConsecutiveRead(compressed,
                 [value |-> PyOr(rd.value, Shl(extracted, shift_amount)),
                  bits_read |-> rd.bits_read + bits_to_read_now,
                  bit |-> IF bit >= WordBits THEN 0 ELSE bit,
                  index |-> IF bit >= WordBits THEN rd.index + 1 ELSE rd.index],
                 bits_to_read - bits_to_read_now, bits_per_element)

RECURSIVE ConsecutiveUnpack(_, _, _, _, _)
\* The for loop of decompress: n elements still to read from (bit, index).
ConsecutiveUnpack(self, compressed, n, pos, result) ==
    IF n = 0 THEN result
    ELSE LET rd == ConsecutiveRead(compressed,
                       [value |-> Zero, bits_read |-> 0, bit |-> pos.bit, index |-> pos.index],
                       self.bits_per_element, self.bits_per_element)
         IN  ConsecutiveUnpack(self, compressed, n - 1,
                 [bit |-> rd.bit, index |-> rd.index],
                 Append(result, OffsetDecode(rd.value, self.bits_per_element,
                                             self.has_negative_numbers)))

\* BitPackingConsecutive.decompress past its early return: the new result.
ConsecutiveDecompress(self, compressed) ==
    ConsecutiveUnpack(self, compressed, self.original_length, [bit |-> 0, index |-> 0], <<>>)

\* BitPackingConsecutive.get: the value returned or the exception raised.
ConsecutiveGet(self, i) ==
    IF GetOutOfRange(self, i) THEN Raise("IndexError")
    ELSE LET start_bit == i * self.bits_per_element
             rd == ConsecutiveRead(self.compressed_data,
                       [value |-> Zero, bits_read |-> 0,
                        bit |-> start_bit % WordBits, index |-> start_bit \div WordBits],
                       self.bits_per_element, self.bits_per_element)
         IN  Return(OffsetDecode(rd.value, self.bits_per_element, self.has_negative_numbers))

\* ------------------------------------------------------------------------
\* BitPackingNonConsecutive
\* ------------------------------------------------------------------------

RECURSIVE NonConsecutivePack(_, _, _, _, _, _)
\* The for loop of compress over array[k..].
NonConsecutivePack(array, k, st, bits_per_element, has_negative_numbers, elements_per_integer) ==
    IF k > Len(array) THEN st
    ELSE LET value_to_write == OffsetEncode(array[k], bits_per_element, has_negative_numbers)
             full == st.elements_in_current >= elements_per_integer
             compressed == IF full THEN Append(st.compressed, st.current_integer)
                           ELSE st.compressed
             current_bit_position == IF full THEN 0 ELSE st.current_bit_position
             current_integer == set_bits(IF full THEN Zero ELSE st.current_integer,
                                         value_to_write, current_bit_position, bits_per_element)
         IN  NonConsecutivePack(array, k + 1,
                 [compressed |-> compressed,
                  current_integer |-> current_integer,
                  current_bit_position |-> current_bit_position + bits_per_element,
                  elements_in_current |-> (IF full THEN 0 ELSE st.elements_in_current) + 1],
                 bits_per_element, has_negative_numbers, elements_per_integer)

\* BitPackingNonConsecutive.compress on a non-empty array.
NonConsecutiveCompress(array) ==
    LET has_negative_numbers == AnyNegative(array)
        bits_per_element == calculate_bits_needed(array)
        elements_per_integer == WordBits \div bits_per_element
        st == NonConsecutivePack(array, 1,
                  [compressed |-> <<>>, current_integer |-> Zero,
                   current_bit_position |-> 0, elements_in_current |-> 0],
                  bits_per_element, has_negative_numbers, elements_per_integer)
        compressed == IF st.elements_in_current > 0
                      THEN Append(st.compressed, st.current_integer)
                      ELSE st.compressed
    IN  [original_length |-> Len(array),
         has_negative_numbers |-> has_negative_numbers,
         bits_per_element |-> bits_per_element,
         compressed_data |-> compressed]

RECURSIVE NonConsecutiveUnpackWord(_, _, _, _, _)
\* The while loop of decompress over one word.
NonConsecutiveUnpackWord(self, compressed_int, elements_read, elements_per_integer, result) ==
    IF ~(elements_read < elements_per_integer /\ Len(result) < self.original_length)
    THEN result
    ELSE LET value == extract_bits(compressed_int, elements_read * self.bits_per_element,
                                   self.bits_per_element)
         IN  NonConsecutiveUnpackWord(self, compressed_int, elements_read + 1,
                 elements_per_integer,
                 Append(result, OffsetDecode(value, self.bits_per_element,
                                             self.has_negative_numbers)))

RECURSIVE NonConsecutiveUnpack(_, _, _, _)
\* The for loop of decompress over compressed[k..].
NonConsecutiveUnpack(self, compressed, k, result) ==
    IF k > Len(compressed) THEN result
    ELSE NonConsecutiveUnpack(self, compressed, k + 1,
             NonConsecutiveUnpackWord(self, compressed[k], 0,
                                      WordBits \div self.bits_per_element, result))

\* BitPackingNonConsecutive.decompress past its early return: the new result.
NonConsecutiveDecompress(self, compressed) == NonConsecutiveUnpack(self, compressed, 1, <<>>)

\* BitPackingNonConsecutive.get: the value returned or the exception raised.
NonConsecutiveGet(self, i) ==
    IF GetOutOfRange(self, i) THEN Raise("IndexError")
    ELSE LET elements_per_integer == WordBits \div self.bits_per_element
         IN  IF elements_per_integer = 0 THEN Raise("ZeroDivisionError")
             ELSE LET compressed_index == i \div elements_per_integer
                      element_offset == i % elements_per_integer
                  IN  IF compressed_index >= Len(self.compressed_data) THEN Raise("IndexError")
                      ELSE Return(OffsetDecode(
                               extract_bits(self.compressed_data[compressed_index + 1],
                                            element_offset * self.bits_per_element,
                                            self.bits_per_element),
                               self.bits_per_element, self.has_negative_numbers))

\* ------------------------------------------------------------------------
\* BitPackingOverflow: classification and compress
\* ------------------------------------------------------------------------

\* The marker that opens the metadata trailer, 0xFFFFFFFF.
Marker == LowMask(WordBits)

\* math.floor(math.log2(abs_val)) + 1, or 1 for zero.
BitsRequired(val) == IF val.mag = <<>> THEN 1 ELSE floor_log2(PyAbs(val)) + 1

RECURSIVE SortedInsert(_, _)
SortedInsert(sorted, b) ==
    IF sorted = <<>> THEN <<b>>
    ELSE IF b <= Head(sorted) THEN <<b>> \o sorted
    ELSE <<Head(sorted)>> \o SortedInsert(Tail(sorted), b)

RECURSIVE Sorted(_)
\* sorted(bits_required)
Sorted(bits) == IF bits = <<>> THEN <<>> ELSE SortedInsert(Sorted(Tail(bits)), Head(bits))

RECURSIVE MaxOf(_, _)
\* max(bits, default=d)
MaxOf(bits, d) ==
    IF bits = <<>> THEN d
    ELSE IF Len(bits) = 1 THEN bits[1]
    ELSE Max(Head(bits), MaxOf(Tail(bits), d))

RECURSIVE SelectSeq2(_, _, _)
\* The elements array[k] with keep[k], in order.
SelectSeq2(array, keep, k) ==
    IF k > Len(array) THEN <<>>
    ELSE (IF keep[k] THEN <<array[k]>> ELSE <<>>) \o SelectSeq2(array, keep, k + 1)

calculate_bits_for_indices(num_overflow) ==
    IF num_overflow = 0 THEN 0
    ELSE IF num_overflow = 1 THEN 1
    ELSE floor_log2(P(num_overflow)) + 1

\* The share of outliers above which a split that saves nothing is dropped:
\* overflow_ratio > 0.3, as tenths.
RatioTenths == 3

\* The least gap, in bits, between the median width and an outlier's.
MinGap == 3

\* A faulty _classify_values: the split is dropped when it saves nothing
\* or the outliers are many, where the code asks for both.
classify_values_either(array) ==
    LET n == Len(array)
        bits_required == [k \in 1..n |-> BitsRequired(array[k])]
        sorted_bits == Sorted(bits_required)
        median_bits == sorted_bits[(n \div 2) + 1]
        overflow_threshold == median_bits + Max(MinGap, median_bits \div 2)
        is_overflow == [k \in 1..n |-> bits_required[k] > overflow_threshold]
        is_regular == [k \in 1..n |-> ~is_overflow[k]]
        overflow_values == SelectSeq2(array, is_overflow, 1)
        regular_bits == MaxOf(SelectSeq2(bits_required, is_regular, 1), 1)
        space_saved == MaxOf(bits_required, 0) * n
                           - ((regular_bits + 1) * n + Len(overflow_values) * WordBits)
    IN  IF overflow_values # <<>>
              /\ (space_saved < 0 \/ 10 * Len(overflow_values) > RatioTenths * n)
        THEN [regular_values |-> array, overflow_values |-> <<>>, overflow_positions |-> <<>>]
        ELSE [regular_values |-> SelectSeq2(array, is_regular, 1),
              overflow_values |-> overflow_values,
              overflow_positions |-> SelectSeq2([k \in 1..n |-> k - 1], is_overflow, 1)]

\* A faulty _classify_values: the median is the element at position
\* (n - 1) // 2 of the sorted widths, the lower of the two middle ones when
\* n is even.
classify_values_lower_median(array) ==
    LET n == Len(array)
        bits_required == [k \in 1..n |-> BitsRequired(array[k])]
        sorted_bits == Sorted(bits_required)
        median_bits == sorted_bits[((n - 1) \div 2) + 1]
        overflow_threshold == median_bits + Max(MinGap, median_bits \div 2)
        is_overflow == [k \in 1..n |-> bits_required[k] > overflow_threshold]
        is_regular == [k \in 1..n |-> ~is_overflow[k]]
        overflow_values == SelectSeq2(array, is_overflow, 1)
        regular_bits == MaxOf(SelectSeq2(bits_required, is_regular, 1), 1)
        space_saved == MaxOf(bits_required, 0) * n
                           - ((regular_bits + 1) * n + Len(overflow_values) * WordBits)
    IN  IF overflow_values # <<>>
              /\ space_saved < 0 /\ 10 * Len(overflow_values) > RatioTenths * n
        THEN [regular_values |-> array, overflow_values |-> <<>>, overflow_positions |-> <<>>]
        ELSE [regular_values |-> SelectSeq2(array, is_regular, 1),
              overflow_values |-> overflow_values,
              overflow_positions |-> SelectSeq2([k \in 1..n |-> k - 1], is_overflow, 1)]

\* A faulty _classify_values: when the split is dropped the positions of the
\* provisional outliers are still returned.
classify_values_keeps_positions(array) ==
    LET n == Len(array)
        bits_required == [k \in 1..n |-> BitsRequired(array[k])]
        median_bits == Sorted(bits_required)[(n \div 2) + 1]
        overflow_threshold == median_bits + Max(MinGap, median_bits \div 2)
        is_overflow == [k \in 1..n |-> bits_required[k] > overflow_threshold]
        is_regular == [k \in 1..n |-> ~is_overflow[k]]
        overflow_values == SelectSeq2(array, is_overflow, 1)
        overflow_positions == SelectSeq2([k \in 1..n |-> k - 1], is_overflow, 1)
        regular_bits == MaxOf(SelectSeq2(bits_required, is_regular, 1), 1)
        space_saved == MaxOf(bits_required, 0) * n
                         - ((regular_bits + 1) * n + Len(overflow_values) * WordBits)
    IN  IF overflow_values # <<>> /\ space_saved < 0
           /\ 10 * Len(overflow_values) > RatioTenths * n
        THEN [regular_values |-> array, overflow_values |-> <<>>,
              overflow_positions |-> overflow_positions]
        ELSE [regular_values |-> SelectSeq2(array, is_regular, 1),
              overflow_values |-> overflow_values,
              overflow_positions |-> overflow_positions]

\* _classify_values on a non-empty array. overflow_positions are 0-based.
classify_values(array) ==
    LET n == Len(array)
        bits_required == [k \in 1..n |-> BitsRequired(array[k])]
        sorted_bits == Sorted(bits_required)
        median_bits == sorted_bits[(n \div 2) + 1]
        threshold == Max(MinGap, median_bits \div 2)
        overflow_threshold == median_bits + threshold
        is_overflow == [k \in 1..n |-> bits_required[k] > overflow_threshold]
        is_regular == [k \in 1..n |-> ~is_overflow[k]]
        regular_values == SelectSeq2(array, is_regular, 1)
        overflow_values == SelectSeq2(array, is_overflow, 1)
        overflow_positions == SelectSeq2([k \in 1..n |-> k - 1], is_overflow, 1)
        total_without_overflow == MaxOf(bits_required, 0) * n
        regular_bits == MaxOf(SelectSeq2(bits_required, is_regular, 1), 1)
        total_with_overflow == (regular_bits + 1) * n + Len(overflow_values) * WordBits
        space_saved == total_without_overflow - total_with_overflow
        \* overflow_ratio > 0.3: the float quotient exceeds the float 0.3
        \* exactly when 10 * count > 3 * n, for every length a list can have.
        ratio_high == 10 * Len(overflow_values) > RatioTenths * n
    IN  IF overflow_values # <<>> /\ space_saved < 0 /\ ratio_high
        THEN [regular_values |-> array, overflow_values |-> <<>>, overflow_positions |-> <<>>]
        ELSE [regular_values |-> regular_values, overflow_values |-> overflow_values,
              overflow_positions |-> overflow_positions]

\* overflow_map: the slot of array position i (0-based), or -1 when i is no key.
RECURSIVE OverflowMapAt(_, _, _)
OverflowMapAt(overflow_indices, i, k) ==
    IF k > Len(overflow_indices) THEN -1
    ELSE LET later == OverflowMapAt(overflow_indices, i, k + 1)
         IN  IF later # -1 THEN later
             ELSE IF overflow_indices[k] = i THEN k - 1 ELSE -1

\* Writing the flag bit of an element in the consecutive layout.
OverflowWriteFlag(st, flag_bit) ==
    LET current_integer == set_bits(st.current_integer, flag_bit, st.current_bit_position, 1)
        current_bit_position == st.current_bit_position + 1
    IN  IF current_bit_position >= WordBits
        THEN [compressed |-> Append(st.compressed, current_integer),
              current_integer |-> Zero, current_bit_position |-> 0]
        ELSE [compressed |-> st.compressed,
              current_integer |-> current_integer,
              current_bit_position |-> current_bit_position]

RECURSIVE OverflowWrite(_, _, _)
\* The while loops of _compress_consecutive: the payload, high chunk first.
OverflowWrite(st, value_to_write, bits_to_write) ==
    IF bits_to_write <= 0 THEN st
    ELSE LET bits_available == WordBits - st.current_bit_position
             bits_to_write_now == Min(bits_to_write, bits_available)
             bits_to_write_value == PyAnd(Shr(value_to_write, bits_to_write - bits_to_write_now),
                                          LowMask(bits_to_write_now))
             current_integer == set_bits(st.current_integer, bits_to_write_value,
                                         st.current_bit_position, bits_to_write_now)
             current_bit_position == st.current_bit_position + bits_to_write_now
         IN  OverflowWrite(
                 IF current_bit_position >= WordBits
                 THEN [compressed |-> Append(st.compressed, current_integer),
                       current_integer |-> Zero, current_bit_position |-> 0]
                 ELSE [compressed |-> st.compressed,
                       current_integer |-> current_integer,
                       current_bit_position |-> current_bit_position],
                 value_to_write, bits_to_write - bits_to_write_now)

RECURSIVE OverflowPackConsecutivePadded(_, _, _, _)
\* A faulty loop of _compress_consecutive: every payload is written with
\* max(value_bits, bits_for_overflow_index) bits, whichever kind it is.
OverflowPackConsecutivePadded(self, array, k, st) ==
    IF k > Len(array) THEN st
    ELSE LET overflow_idx == OverflowMapAt(self.overflow_indices, k - 1, 1)
             payload_bits == Max(self.value_bits, self.bits_for_overflow_index)
         IN  OverflowPackConsecutivePadded(self, array, k + 1,
                 IF overflow_idx # -1
                 THEN OverflowWrite(OverflowWriteFlag(st, One), P(overflow_idx), payload_bits)
                 ELSE OverflowWrite(OverflowWriteFlag(st, Zero),
                                    OffsetEncode(array[k], self.value_bits,
                                                 self.has_negative_numbers),
                                    payload_bits))

RECURSIVE OverflowPackConsecutive(_, _, _, _)
\* The for loop of _compress_consecutive over array[k..].
OverflowPackConsecutive(self, array, k, st) ==
    IF k > Len(array) THEN st
    ELSE LET overflow_idx == OverflowMapAt(self.overflow_indices, k - 1, 1)
         IN  OverflowPackConsecutive(self, array, k + 1,
                 IF overflow_idx # -1
                 THEN OverflowWrite(OverflowWriteFlag(st, One), P(overflow_idx),
                                    self.bits_for_overflow_index)
                 ELSE OverflowWrite(OverflowWriteFlag(st, Zero),
                                    OffsetEncode(array[k], self.value_bits,
                                                 self.has_negative_numbers),
                                    self.value_bits))

compress_consecutive(self, array) ==
    LET st == OverflowPackConsecutive(self, array, 1,
                  [compressed |-> <<>>, current_integer |-> Zero, current_bit_position |-> 0])
    IN  IF st.current_bit_position > 0
        THEN Append(st.compressed, st.current_integer)
        ELSE st.compressed

RECURSIVE OverflowPackNonConsecutive(_, _, _, _)
\* The for loop of _compress_non_consecutive over array[k..].
OverflowPackNonConsecutive(self, array, k, st) ==
    IF k > Len(array) THEN st
    ELSE LET overflow_idx == OverflowMapAt(self.overflow_indices, k - 1, 1)
             element_size == IF overflow_idx # -1
                             THEN 1 + self.bits_for_overflow_index
                             ELSE 1 + self.value_bits
             fresh == st.current_bit_position + element_size > WordBits
             compressed == IF fresh THEN Append(st.compressed, st.current_integer)
                           ELSE st.compressed
             start == IF fresh THEN 0 ELSE st.current_bit_position
             flagged == set_bits(IF fresh THEN Zero ELSE st.current_integer,
                                 IF overflow_idx # -1 THEN One ELSE Zero, start, 1)
             current_integer ==
                 IF overflow_idx # -1
                 THEN set_bits(flagged, P(overflow_idx), start + 1, self.bits_for_overflow_index)
                 ELSE set_bits(flagged,
                               OffsetEncode(array[k], self.value_bits, self.has_negative_numbers),
                               start + 1, self.value_bits)
         IN  OverflowPackNonConsecutive(self, array, k + 1,
                 [compressed |-> compressed,
                  current_integer |-> current_integer,
                  current_bit_position |-> start + element_size,
                  elements_in_current |-> (IF fresh THEN 0 ELSE st.elements_in_current) + 1])

compress_non_consecutive(self, array) ==
    LET st == OverflowPackNonConsecutive(self, array, 1,
                  [compressed |-> <<>>, current_integer |-> Zero,
                   current_bit_position |-> 0, elements_in_current |-> 0])
    IN  IF st.elements_in_current > 0
        THEN Append(st.compressed, st.current_integer)
        ELSE st.compressed

\* compress, lines 56-70: the fields set from the classification c.
OverflowFields(array, c) ==
    IF c.regular_values = <<>>
    THEN [overflow_area |-> c.overflow_values,
          overflow_indices |-> [k \in 1..Len(array) |-> k - 1],
          value_bits |-> 1,
          bits_for_overflow_index |-> calculate_bits_for_indices(Len(c.overflow_values)),
          has_negative_numbers |-> AnyNegative(array)]
    ELSE [overflow_area |-> c.overflow_values,
          overflow_indices |-> c.overflow_positions,
          value_bits |-> calculate_bits_needed(c.regular_values),
          bits_for_overflow_index |->
              IF c.overflow_values # <<>>
              THEN calculate_bits_for_indices(Len(c.overflow_values)) ELSE 0,
          has_negative_numbers |-> AnyNegative(c.regular_values)]

\* The instance with those fields assigned.
OverflowAssign(self, n, fields) ==
    [self EXCEPT !.original_length = n,
                 !.overflow_area = fields.overflow_area,
                 !.overflow_indices = fields.overflow_indices,
                 !.value_bits = fields.value_bits,
                 !.bits_for_overflow_index = fields.bits_for_overflow_index,
                 !.has_negative_numbers = fields.has_negative_numbers]

\* A faulty OverflowEmit: the trailer is appended only when there are
\* overflow values.
OverflowEmitBare(set, array) ==
    LET packed == IF set.allow_consecutive
                  THEN compress_consecutive(set, array)
                  ELSE compress_non_consecutive(set, array)
        trailer == <<Marker, P(Len(array)), P(Len(set.overflow_area)), P(set.value_bits),
                     P(set.bits_for_overflow_index), P(Len(set.overflow_indices))>>
    IN  [set EXCEPT !.compressed_data =
                        IF set.overflow_area = <<>> THEN packed
                        ELSE packed \o trailer \o set.overflow_area]

\* compress, lines 75-99: the packed elements, then the trailer, then the
\* overflow area.
OverflowEmit(set, array) ==
    LET packed == IF set.allow_consecutive
                  THEN compress_consecutive(set, array)
                  ELSE compress_non_consecutive(set, array)
        trailer == <<Marker, P(Len(array)), P(Len(set.overflow_area)), P(set.value_bits),
                     P(set.bits_for_overflow_index),
                     IF set.overflow_indices # <<>> THEN P(Len(set.overflow_indices)) ELSE Zero>>
    IN  [set EXCEPT !.compressed_data = packed \o trailer \o set.overflow_area]

\* BitPackingOverflow.compress on a non-empty array: the instance after the
\* call; the stream returned is its compressed_data.
OverflowCompress(self, array) ==
    OverflowEmit(OverflowAssign(self, Len(array), OverflowFields(array, classify_values(array))),
                 array)

\* ------------------------------------------------------------------------
\* BitPackingOverflow: decompress and get
\* ------------------------------------------------------------------------

\* How many words from the end decompress looks at for the marker.
SearchWindow == 100

\* The bounds decompress puts on the trailer's fields.
MaxOriginalLen == 1000000
MaxOverflowSize == 1000

\* The sanity check of the five metadata words after a marker at index i
\* (0-based), i + 5 < len(compressed).
TrailerValid(compressed, i) ==
    LET original_len == compressed[i + 2]
        overflow_size == compressed[i + 3]
        value_bits_meta == compressed[i + 4]
        bits_overflow_meta == compressed[i + 5]
        nb_indices_meta == compressed[i + 6]
    IN  /\ PyLess(Zero, original_len) /\ PyLess(original_len, P(MaxOriginalLen))
        /\ PyLeq(Zero, overflow_size) /\ PyLess(overflow_size, P(MaxOverflowSize))
        /\ PyLess(Zero, value_bits_meta) /\ PyLeq(value_bits_meta, P(WordBits))
        /\ PyLeq(Zero, bits_overflow_meta) /\ PyLeq(bits_overflow_meta, P(WordBits))
        /\ PyLeq(Zero, nb_indices_meta)
        /\ (overflow_size = Zero \/ PyLeq(nb_indices_meta, overflow_size))
        /\ i + 6 + ToInt(overflow_size) <= Len(compressed)

RECURSIVE FindTrailerUnchecked(_, _, _)
\* A faulty FindTrailer: the first marker with five words after it is
\* taken, whatever the metadata.
FindTrailerUnchecked(compressed, i, stop) ==
    IF i <= stop THEN -1
    ELSE IF /\ compressed[i + 1] = Marker
            /\ i + 5 < Len(compressed)
         THEN i
         ELSE FindTrailerUnchecked(compressed, i - 1, stop)

RECURSIVE FindTrailer(_, _, _)
\* The backward scan: the index (0-based) of the first marker, from i down
\* to stop + 1, that is followed by valid metadata, or -1.
FindTrailer(compressed, i, stop) ==
    IF i <= stop THEN -1
    ELSE IF /\ compressed[i + 1] = Marker
            /\ i + 5 < Len(compressed)
            /\ TrailerValid(compressed, i)
         THEN i
         ELSE FindTrailer(compressed, i - 1, stop)

RECURSIVE ReadBitsLoop(_, _, _)
ReadBitsLoop(compressed, num_bits, rd) ==
    IF ~(rd.bits_read < num_bits) THEN rd.value
    ELSE IF rd.integer_index >= Len(compressed) THEN rd.value
    ELSE LET current_integer == compressed[rd.integer_index + 1]
             bit_offset == rd.bit_position % WordBits
             bits_available == WordBits - bit_offset
             bits_to_read_now == Min(num_bits - rd.bits_read, bits_available)
             extracted == extract_bits(current_integer, bit_offset, bits_to_read_now)
             bit_position == rd.bit_position + bits_to_read_now
         IN  ReadBitsLoop(compressed, num_bits,
                 [value |-> PyOr(rd.value,
                                 Shl(extracted, num_bits - rd.bits_read - bits_to_read_now)),
                  bits_read |-> rd.bits_read + bits_to_read_now,
                  bit_position |-> bit_position,
                  integer_index |-> IF bit_position % WordBits = 0
                                    THEN rd.integer_index + 1 ELSE rd.integer_index])

read_bits_consecutive(compressed, num_bits, start_bit, start_index) ==
    ReadBitsLoop(compressed, num_bits,
                 [value |-> Zero, bits_read |-> 0,
                  bit_position |-> start_bit, integer_index |-> start_index])

\* A faulty _advance_position: the bit position wraps but the word index
\* does not move on.
advance_position_no_carry(pos, num_bits) ==
    [bit |-> (pos.bit + num_bits) % WordBits, index |-> pos.index]

advance_position(pos, num_bits) ==
    LET new_bit_position == pos.bit + num_bits
    IN  [bit |-> new_bit_position % WordBits,
         index |-> pos.index + (new_bit_position \div WordBits)]

\* A faulty OverflowLookup: an index past the area gives the last value of
\* the area when there is one.
OverflowLookupLast(self, raw_idx) ==
    LET overflow_idx == PyAnd(raw_idx, LowMask(self.bits_for_overflow_index))
    IN  IF PyLess(overflow_idx, P(Len(self.overflow_area)))
        THEN self.overflow_area[ToInt(overflow_idx) + 1]
        ELSE IF self.overflow_area # <<>>
        THEN self.overflow_area[Len(self.overflow_area)]
        ELSE Zero

\* The value of an overflow reference: the slot's, or 0 past the area.
OverflowLookup(self, raw_idx) ==
    LET overflow_idx == PyAnd(raw_idx, LowMask(self.bits_for_overflow_index))
    IN  IF PyLess(overflow_idx, P(Len(self.overflow_area)))
        THEN self.overflow_area[ToInt(overflow_idx) + 1]
        ELSE Zero

\* The value of a regular payload.
RegularValue(self, raw) ==
    OffsetDecode(PyAnd(raw, LowMask(self.value_bits)), self.value_bits,
                 self.has_negative_numbers)

\* One element of the consecutive layout at pos: its flag, its value and the
\* position after it.
ReadElementConsecutive(self, compressed, pos) ==
    LET flag == read_bits_consecutive(compressed, 1, pos.bit, pos.index)
        p1 == advance_position(pos, 1)
    IN  IF flag = One
        THEN [flag |-> 1,
              value |-> OverflowLookup(self,
                            read_bits_consecutive(compressed, self.bits_for_overflow_index,
                                                  p1.bit, p1.index)),
              pos |-> advance_position(p1, self.bits_for_overflow_index)]
        ELSE [flag |-> 0,
              value |-> RegularValue(self,
                            read_bits_consecutive(compressed, self.value_bits,
                                                  p1.bit, p1.index)),
              pos |-> advance_position(p1, self.value_bits)]

RECURSIVE UnpackOverflowConsecutive(_, _, _, _, _)
\* The for loop of _decompress_consecutive from element_index on.
UnpackOverflowConsecutive(self, compressed, element_index, pos, acc) ==
    IF element_index >= self.original_length THEN acc
    ELSE LET e == ReadElementConsecutive(self, compressed, pos)
         IN  UnpackOverflowConsecutive(self, compressed, element_index + 1, e.pos,
                 [result |-> Append(acc.result, e.value),
                  overflow_indices |-> IF e.flag = 1
                                       THEN Append(acc.overflow_indices, element_index)
                                       ELSE acc.overflow_indices])

decompress_consecutive(self, compressed) ==
    UnpackOverflowConsecutive(self, compressed, 0, [bit |-> 0, index |-> 0],
                              [result |-> <<>>, overflow_indices |-> <<>>])

\* The size the non-consecutive reader gives the element at pos: one flag
\* bit plus the payload its first flag read selects.
FirstElementSize(self, compressed, pos) ==
    1 + (IF read_bits_consecutive(compressed, 1, pos.bit, pos.index) = One
         THEN self.bits_for_overflow_index ELSE self.value_bits)

\* The position after the element at pos in the non-consecutive layout.
NextNonConsecutive(self, compressed, pos) ==
    LET element_total_size == FirstElementSize(self, compressed, pos)
    IN  IF pos.bit + element_total_size > WordBits
        THEN [bit |-> element_total_size, index |-> pos.index + 1]
        ELSE IF pos.bit + element_total_size >= WordBits
        THEN [bit |-> 0, index |-> pos.index + 1]
        ELSE [bit |-> pos.bit + element_total_size, index |-> pos.index]

\* The value of the element at pos in the non-consecutive layout.
ReadElementNonConsecutive(self, compressed, pos) ==
    LET element_total_size == FirstElementSize(self, compressed, pos)
        moved == pos.bit + element_total_size > WordBits
        int_idx == IF moved THEN pos.index + 1 ELSE pos.index
        flag == IF moved THEN read_bits_consecutive(compressed, 1, 0, int_idx)
                ELSE read_bits_consecutive(compressed, 1, pos.bit, pos.index)
        bit_pos == IF moved THEN 1 ELSE pos.bit + 1
    IN  IF flag = One
        THEN OverflowLookup(self, read_bits_consecutive(compressed,
                                      self.bits_for_overflow_index, bit_pos, int_idx))
        ELSE RegularValue(self, read_bits_consecutive(compressed, self.value_bits,
                                                      bit_pos, int_idx))

RECURSIVE UnpackOverflowNonConsecutive(_, _, _, _, _)
\* The for loop of _decompress_non_consecutive from element i on.
UnpackOverflowNonConsecutive(self, compressed, i, pos, result) ==
    IF i >= self.original_length THEN result
    ELSE UnpackOverflowNonConsecutive(self, compressed, i + 1,
             NextNonConsecutive(self, compressed, pos),
             Append(result, ReadElementNonConsecutive(self, compressed, pos)))

decompress_non_consecutive(self, compressed) ==
    UnpackOverflowNonConsecutive(self, compressed, 0, [bit |-> 0, index |-> 0], <<>>)

\* BitPackingOverflow.decompress: the instance and the caller's result list
\* after the call.
OverflowDecompress(self, compressed, result) ==
    LET len == Len(compressed)
        i == IF len >= 6
             THEN FindTrailer(compressed, len - 1, Max(-1, len - SearchWindow))
             ELSE -1
    IN  IF compressed = <<>> \/ i = -1 THEN [self |-> self, result |-> result]
        ELSE LET overflow_size == ToInt(compressed[i + 3])
                 parsed == [self EXCEPT
                               !.original_length = ToInt(compressed[i + 2]),
                               !.value_bits = ToInt(compressed[i + 4]),
                               !.bits_for_overflow_index = ToInt(compressed[i + 5]),
                               !.overflow_area = SubSeq(compressed, i + 7, i + 6 + overflow_size)]
                 main == SubSeq(compressed, 1, i)
             IN  IF self.allow_consecutive
                 THEN LET d == decompress_consecutive(parsed, main)
                      IN  [self |-> [parsed EXCEPT !.overflow_indices = d.overflow_indices,
                                                   !.compressed_data = main],
                           result |-> d.result]
                 ELSE [self |-> [parsed EXCEPT !.compressed_data = main],
                       result |-> decompress_non_consecutive(parsed, main)]

RECURSIVE SkipConsecutive(_, _, _)
\* The for loop of get, consecutive layout: the position after j elements.
SkipConsecutive(self, j, pos) ==
    IF j = 0 THEN pos
    ELSE LET flag_temp == read_bits_consecutive(self.compressed_data, 1, pos.bit, pos.index)
             p1 == advance_position(pos, 1)
         IN  SkipConsecutive(self, j - 1,
                 IF flag_temp = One
                 THEN advance_position(p1, self.bits_for_overflow_index)
                 ELSE advance_position(p1, self.value_bits))

RECURSIVE SkipNonConsecutive(_, _, _)
\* The for loop of get, non-consecutive layout: the position after j elements.
SkipNonConsecutive(self, j, pos) ==
    IF j = 0 THEN pos
    ELSE SkipNonConsecutive(self, j - 1, NextNonConsecutive(self, self.compressed_data, pos))

\* BitPackingOverflow.get: the value returned or the exception raised.
OverflowGet(self, i) ==
    IF GetOutOfRange(self, i) THEN Raise("IndexError")
    ELSE IF self.allow_consecutive
    THEN Return(ReadElementConsecutive(self, self.compressed_data,
                    SkipConsecutive(self, i, [bit |-> 0, index |-> 0])).value)
    ELSE Return(ReadElementNonConsecutive(self, self.compressed_data,
                    SkipNonConsecutive(self, i, [bit |-> 0, index |-> 0])))

\* ------------------------------------------------------------------------
\* Instances and the three public operations
\* ------------------------------------------------------------------------

\* The type tags of CompressionType.
Variants == {"consecutive", "non_consecutive", "overflow_consecutive", "overflow_non_consecutive"}

\* BitPackingBase.__init__ and BitPackingOverflow.__init__: a new instance.
\* The overflow fields exist on the overflow codec only; the other two
\* never read or write them.
NewInstance(codec, allow_consecutive) ==
    [codec |-> codec,
     allow_consecutive |-> allow_consecutive,
     bits_per_element |-> 0,
     compressed_data |-> <<>>,
     original_length |-> 0,
     has_negative_numbers |-> FALSE,
     overflow_area |-> <<>>,
     overflow_indices |-> <<>>,
     bits_for_overflow_index |-> 0,
     value_bits |-> 0]

\* BitPackingFactory.create for a recognised tag.
Create(tag) ==
    CASE tag = "consecutive" -> NewInstance("consecutive", FALSE)
      [] tag = "non_consecutive" -> NewInstance("non_consecutive", FALSE)
      [] tag = "overflow_consecutive" -> NewInstance("overflow", TRUE)
      [] tag = "overflow_non_consecutive" -> NewInstance("overflow", FALSE)

\* The fields compress of the two plain codecs assigns.
WithPacked(self, c) ==
    [self EXCEPT !.original_length = c.original_length,
                 !.has_negative_numbers = c.has_negative_numbers,
                 !.bits_per_element = c.bits_per_element,
                 !.compressed_data = c.compressed_data]

\* compress returns the list it has just stored in compressed_data.
Compressed(after) == [self |-> after, ret |-> after.compressed_data]

\* compress(array): the instance after the call and the list returned.
CompressCall(self, array) ==
    IF array = <<>> THEN [self |-> self, ret |-> <<>>]
    ELSE Compressed(CASE self.codec = "consecutive" ->
                             WithPacked(self, ConsecutiveCompress(array))
                      [] self.codec = "non_consecutive" ->
                             WithPacked(self, NonConsecutiveCompress(array))
                      [] self.codec = "overflow" -> OverflowCompress(self, array))

\* A faulty DecompressCall: the two plain codecs clear the result list
\* before the test for an empty buffer or a zero original_length, not
\* after it.
DecompressCallClearsFirst(self, compressed, result) ==
    IF self.codec = "overflow" THEN OverflowDecompress(self, compressed, result)
    ELSE IF compressed = <<>> \/ self.original_length = 0
    THEN [self |-> self, result |-> <<>>]
    ELSE [self |-> [self EXCEPT !.compressed_data = compressed],
          result |-> IF self.codec = "consecutive"
                     THEN ConsecutiveDecompress(self, compressed)
                     ELSE NonConsecutiveDecompress(self, compressed)]

\* decompress(compressed, result): the instance and the result list after
\* the call.
DecompressCall(self, compressed, result) ==
    IF self.codec = "overflow" THEN OverflowDecompress(self, compressed, result)
    ELSE IF compressed = <<>> \/ self.original_length = 0
    THEN [self |-> self, result |-> result]
    ELSE [self |-> [self EXCEPT !.compressed_data = compressed],
          result |-> IF self.codec = "consecutive"
                     THEN ConsecutiveDecompress(self, compressed)
                     ELSE NonConsecutiveDecompress(self, compressed)]

\* get(i): the value returned or the exception raised; get assigns nothing.
GetCall(self, i) ==
    CASE self.codec = "consecutive" -> ConsecutiveGet(self, i)
      [] self.codec = "non_consecutive" -> NonConsecutiveGet(self, i)
      [] self.codec = "overflow" -> OverflowGet(self, i)

\* ------------------------------------------------------------------------
\* The arrays the checks draw from
\* ------------------------------------------------------------------------

\* The extremes of the signed 32-bit range.
MaxInt32 == LowMask(31)
MinInt32 == PyNeg(Shl(One, 31))

\* The values of the short arrays: zero, small values of both signs, a
\* value far wider than those, and the widest values 32-bit input holds.
Vals == {Zero, P(5), P(-3), Shl(One, 20), MaxInt32, PyNeg(Shl(One, 30)), MinInt32}

\* The longest short array.
MaxLen == 2

RECURSIVE SeqsUpTo(_, _)
SeqsUpTo(S, n) ==
    IF n = 0 THEN {<<>>}
    ELSE LET shorter == SeqsUpTo(S, n - 1)
         IN  shorter \cup {Append(a, x) : a \in {b \in shorter : Len(b) = n - 1}, x \in S}

ShortArrays == SeqsUpTo(Vals, MaxLen)

Rep(x, k) == [j \in 1..k |-> x]

\* Arrays of regular values with one or two outliers: i regular values, an
\* outlier, j regular values and then, or not, the outlier again.
MaxRun == 3
Regulars == {P(256), P(-94)}
Outliers == {Shl(One, 20), PyNeg(Shl(One, 20))}
Patterns ==
    {Rep(r, i) \o <<x>> \o Rep(r, j) \o (IF again THEN <<x>> ELSE <<>>) :
        r \in Regulars, x \in Outliers, i \in 0..MaxRun, j \in 0..MaxRun,
        again \in BOOLEAN}

\* The arrays of verify_correctness that are not random.
Scenarios ==
    {<<P(1), P(2), P(3), P(4), P(5)>>,
     <<P(1), P(2), P(3), P(1024), P(4), P(5), P(2048)>>,
     <<P(-5), P(-3), P(-1), P(0), P(1), P(3), P(5)>>,
     Rep(Zero, 10),
     <<P(100), P(200), P(300), P(400), P(500)>>}

\* Arrays on the edges of the classifier's test: one outlier in four values
\* (25%) and three in ten (30%, not above), each costing more words with
\* the split than without, and one outlier in three values (33%).
Marginal ==
    {<<P(256), P(256), P(8192), P(256)>>,
     Rep(P(256), 7) \o Rep(P(8192), 3),
     <<P(256), P(8192), P(256)>>}

CodecInputs == ShortArrays \cup Patterns \cup Scenarios \cup Marginal

\* A result list that already holds an element.
UsedResult == <<P(7)>>

\* ------------------------------------------------------------------------
\* The caller: state and calls
\* ------------------------------------------------------------------------

VARIABLES
    producer,   \* the codec instance the caller compresses with
    consumer,   \* a second instance of the same configuration, which never compresses
    array,      \* the caller's array, the one it passes to compress
    stream,     \* the list last returned by compress
    result,     \* the caller's result list
    call        \* the last call made, with what it was given and gave back

vars == <<producer, consumer, array, stream, result, call>>

NoCall ==
    [op |-> "none", on |-> "none", i |-> 0, buffer |-> <<>>, result_in |-> <<>>,
     before |-> <<>>, ret |-> Return(Zero), tag |-> <<>>, allow_consecutive |-> "None"]

Instance(who) == IF who = "producer" THEN producer ELSE consumer

\* compressor.compress(v) on the producer.
DoCompress(v) ==
    \E r \in {CompressCall(producer, v)} :
        /\ producer' = r.self
        /\ stream' = r.ret
        /\ array' = v
        /\ call' = [NoCall EXCEPT !.op = "compress", !.on = "producer", !.before = producer]
        /\ UNCHANGED <<consumer, result>>

\* who.decompress(buffer, result), the result list holding result_in.
DoDecompressBuffer(who, buffer, result_in) ==
    \E r \in {DecompressCall(Instance(who), buffer, result_in)} :
        /\ IF who = "producer"
           THEN producer' = r.self /\ UNCHANGED consumer
           ELSE consumer' = r.self /\ UNCHANGED producer
        /\ result' = r.result
        /\ call' = [NoCall EXCEPT !.op = "decompress", !.on = who, !.buffer = buffer,
                                  !.result_in = result_in, !.before = Instance(who)]
        /\ UNCHANGED <<array, stream>>

\* who.decompress(stream, result): the buffer is the list compress returned.
DoDecompress(who, result_in) == DoDecompressBuffer(who, stream, result_in)

\* who.get(i)
DoGet(who, i) ==
    /\ call' = [NoCall EXCEPT !.op = "get", !.on = who, !.i = i,
                              !.before = Instance(who), !.ret = GetCall(Instance(who), i)]
    /\ UNCHANGED <<producer, consumer, array, stream, result>>

\* ------------------------------------------------------------------------
\* Spec: a caller that makes any calls in any order, on a few arrays
\* ------------------------------------------------------------------------

\* The arrays of the free caller, and how many of them it uses.
Catalogue ==
    <<<<P(-5), P(3)>>, <<P(1), P(2), P(3), Shl(One, 20)>>, <<P(6)>>, <<P(-1), P(-1), P(-1), P(-1), MaxInt32>>>>
NumArrays == 3
FreeInputs == {<<>>} \cup {Catalogue[k] : k \in 1..Min(NumArrays, Len(Catalogue))}
MaxIndex == 4

Init ==
    /\ \E tag \in Variants : producer = Create(tag) /\ consumer = Create(tag)
    /\ array = <<>>
    /\ stream = <<>>
    /\ result = <<>>
    /\ call = NoCall

Compress == \E v \in FreeInputs : DoCompress(v)

Decompress == \E who \in {"producer", "consumer"}, r \in {<<>>, UsedResult} : DoDecompress(who, r)

Get == \E who \in {"producer", "consumer"}, i \in -1..MaxIndex : DoGet(who, i)

Next == Compress \/ Decompress \/ Get

Spec == Init /\ [][Next]_vars

\* ------------------------------------------------------------------------
\* SpecVerify: the caller of verify_correctness, on one array of many:
\* compress, then decompress into an empty list, then get(i) for an index of
\* the array; and beside it get(i) straight after compress, and the decode
\* of the same stream by the instance that never compressed.
\* ------------------------------------------------------------------------

InitVerify ==
    /\ \E tag \in Variants : producer = Create(tag) /\ consumer = Create(tag)
    /\ array \in CodecInputs
    /\ stream = <<>>
    /\ result = <<>>
    /\ call = NoCall

VerifyCompress == call.op = "none" /\ DoCompress(array)

VerifyDecompress == call.op = "compress" /\ DoDecompress("producer", <<>>)

VerifyDecompressFresh == call.op = "compress" /\ DoDecompress("consumer", <<>>)

VerifyGet ==
    /\ call.op = "compress" \/ (call.op = "decompress" /\ call.on = "producer")
    /\ \E i \in 0..(Len(array) - 1) : DoGet("producer", i)

NextVerify == VerifyCompress \/ VerifyDecompress \/ VerifyDecompressFresh \/ VerifyGet

SpecVerify == InitVerify /\ [][NextVerify]_vars

\* ------------------------------------------------------------------------
\* SpecGiven: a caller that compresses one array and then, in any order,
\* hands either instance buffers of its choosing to decompress and calls
\* get on the instance that compressed.
\* ------------------------------------------------------------------------

\* The type tag of an instance.
TagOf(self) ==
    IF self.codec = "overflow"
    THEN (IF self.allow_consecutive THEN "overflow_consecutive" ELSE "overflow_non_consecutive")
    ELSE self.codec

\* The streams a new instance of each type returns for the caller's arrays.
ForeignStreams == [tag \in Variants |-> {CompressCall(Create(tag), a).ret : a \in FreeInputs}]

\* Buffers that hold no trailer decompress accepts: one shorter than a
\* trailer, one without the marker, and markers followed by a zero
\* original length, by a value width of 33 and by an overflow size that
\* passes the end of the buffer.
NoTrailer ==
    {<<P(6), P(3)>>,
     <<P(6), P(3), One, Zero, P(3), Zero, Zero>>,
     <<P(6), Marker, Zero, Zero, P(3), Zero, Zero>>,
     <<P(6), Marker, One, Zero, P(33), Zero, Zero>>,
     <<P(6), Marker, One, P(2), P(3), One, One, P(9)>>}

GivenBuffers(self) == ForeignStreams[TagOf(self)] \cup NoTrailer

GivenCompress ==
    /\ call.op = "none"
    /\ \E v \in FreeInputs \ {<<>>} : DoCompress(v)

GivenDecompress ==
    /\ call.op # "none"
    /\ \E who \in {"producer", "consumer"}, b \in GivenBuffers(producer),
          r \in {<<>>, UsedResult} :
            DoDecompressBuffer(who, b, r)

GivenGet ==
    /\ call.op # "none"
    /\ \E i \in 0..MaxIndex : DoGet("producer", i)

NextGiven == GivenCompress \/ GivenDecompress \/ GivenGet

SpecGiven == Init /\ [][NextGiven]_vars

\* ------------------------------------------------------------------------
\* BitPackingFactory.create, on type tags given as strings of characters
\* ------------------------------------------------------------------------

\* The letters str.lower() changes, and what it changes them to.
UpperCase == <<"A", "B", "C", "D", "E", "F", "G", "H", "I", "J", "K", "L", "M", "N", "O", "P", "Q", "R", "S", "T", "U", "V", "W", "X", "Y", "Z">>
LowerCase == <<"a", "b", "c", "d", "e", "f", "g", "h", "i", "j", "k", "l", "m", "n", "o", "p", "q", "r", "s", "t", "u", "v", "w", "x", "y", "z">>

\* compression_type.lower()
lower(s) ==
    [k \in 1..Len(s) |->
        IF \E j \in 1..Len(UpperCase) : UpperCase[j] = s[k]
        THEN LowerCase[CHOOSE j \in 1..Len(UpperCase) : UpperCase[j] = s[k]]
        ELSE s[k]]

\* The characters str.strip() removes from both ends.
Whitespace == {" ", "\t", "\n", "\r", "\f"}

\* A faulty strip: only the left end is trimmed.
strip_left(s) ==
    LET kept == {k \in 1..Len(s) : s[k] \notin Whitespace}
    IN  IF kept = {} THEN <<>>
        ELSE SubSeq(s, CHOOSE k \in kept : \A j \in kept : k <= j, Len(s))

\* compression_type.strip()
strip(s) ==
    LET kept == {k \in 1..Len(s) : s[k] \notin Whitespace}
    IN  IF kept = {} THEN <<>>
        ELSE SubSeq(s, CHOOSE k \in kept : \A j \in kept : k <= j,
                       CHOOSE k \in kept : \A j \in kept : k >= j)

\* [e.value for e in CompressionType], in the order of the enumeration.
AvailableTypes ==
    <<"consecutive", "non_consecutive", "overflow_consecutive", "overflow_non_consecutive">>

\* The characters of each value of CompressionType.
TagChars ==
    [tag \in Variants |->
        CASE tag = "consecutive" -> <<"c", "o", "n", "s", "e", "c", "u", "t", "i", "v", "e">>
          [] tag = "non_consecutive" -> <<"n", "o", "n", "_", "c", "o", "n", "s", "e", "c", "u", "t", "i", "v", "e">>
          [] tag = "overflow_consecutive" -> <<"o", "v", "e", "r", "f", "l", "o", "w", "_", "c", "o", "n", "s", "e", "c", "u", "t", "i", "v", "e">>
          [] tag = "overflow_non_consecutive" -> <<"o", "v", "e", "r", "f", "l", "o", "w", "_", "n", "o", "n", "_", "c", "o", "n", "s", "e", "c", "u", "t", "i", "v", "e">>]

\* BitPackingFactory.create(compression_type, allow_consecutive): the new
\* instance returned, or the ValueError raised with what its message holds.
\* The body never reads allow_consecutive.
FactoryCreate(compression_type, allow_consecutive) ==
    LET t == strip(lower(compression_type))
    IN  IF \E tag \in Variants : t = TagChars[tag]
        THEN Return(Create(CHOOSE tag \in Variants : t = TagChars[tag]))
        ELSE [raised |-> "ValueError",
              value |-> [unknown |-> t, available |-> AvailableTypes]]

\* ------------------------------------------------------------------------
\* SpecFactory: a caller that asks the factory for a codec, uses it, and
\* asks again.
\* ------------------------------------------------------------------------

\* The spellings of a tag the caller passes: in lower case, in upper case
\* or capitalised, with or without whitespace before and after.
Paddings == {<<>>, <<" ">>, <<"\t", "\n">>}
Spellings(tag) ==
    LET low == TagChars[tag]
        up == [k \in 1..Len(low) |->
                  IF \E j \in 1..Len(LowerCase) : LowerCase[j] = low[k]
                  THEN UpperCase[CHOOSE j \in 1..Len(LowerCase) : LowerCase[j] = low[k]]
                  ELSE low[k]]
    IN  {before \o word \o after :
            before \in Paddings, after \in Paddings,
            word \in {low, up, <<up[1]>> \o Tail(low)}}

\* Strings that spell no tag: empty, blank, a tag with a space inside or a
\* character more or less, and the name of no type.
NotTags ==
    {<<>>, <<" ", " ">>, <<"c", "o", "n", "s", "e", "c", "u", "t", "i", "v", "e", "_">>, <<"n", "o", "n", " ", "c", "o", "n", "s", "e", "c", "u", "t", "i", "v", "e">>, <<"o", "v", "e", "r", "f", "l", "o", "w">>, <<"o", "n", "s", "e", "c", "u", "t", "i", "v", "e">>, <<"z", "i", "p">>}

RawTags == UNION {Spellings(tag) : tag \in Variants} \cup NotTags

\* BitPackingFactory.create(raw, allow): the codec returned becomes the
\* caller's; a ValueError leaves the caller with the one it had.
FactoryCreateCall ==
    /\ call.op \in {"none", "compress"}
    /\ \E raw \in RawTags, allow \in {"None", "True", "False"} :
          \E r \in {FactoryCreate(raw, allow)} :
              /\ producer' = IF r.raised = "none" THEN r.value ELSE producer
              /\ call' = [NoCall EXCEPT !.op = "create", !.tag = raw,
                                        !.allow_consecutive = allow,
                                        !.before = producer, !.ret = r]
              /\ UNCHANGED <<consumer, array, stream, result>>

\* The caller compresses with the codec it holds.
FactoryCompress ==
    /\ call.op = "create"
    /\ \E v \in FreeInputs \ {<<>>} : DoCompress(v)

NextFactory == FactoryCreateCall \/ FactoryCompress

SpecFactory == Init /\ [][NextFactory]_vars

\* ------------------------------------------------------------------------
\* SpecMiss: a caller that hands the overflow codec streams whose overflow
\* area holds fewer values than the packed elements refer to, and reads
\* elements back with get.
\* ------------------------------------------------------------------------

\* Arrays without a negative value whose outliers compress keeps.
MissArrays ==
    {<<P(1), P(2), P(3), Shl(One, 20)>>,
     <<P(256), P(256), P(8192), P(256)>>,
     <<P(1), Shl(One, 20), P(3), Shl(One, 20), P(2)>>,
     <<P(1), P(2), P(3), P(1024), P(4), P(5), P(2048)>>}

\* The stream of an instance that has compressed, its overflow area cut
\* down to its first keep values and the trailer saying so.
Shorten(after, keep) ==
    SubSeq(after.compressed_data, 1,
           Len(after.compressed_data) - 6 - Len(after.overflow_area))
        \o <<Marker, P(after.original_length), P(keep), P(after.value_bits),
              P(after.bits_for_overflow_index), P(keep)>>
        \o SubSeq(after.overflow_area, 1, keep)

MissBuffers(tag) ==
    {Shorten(CompressCall(Create(tag), a).self, keep) :
        a \in MissArrays, keep \in 0..1}

MissDecompress ==
    /\ producer.codec = "overflow"
    /\ \E b \in MissBuffers(TagOf(producer)), r \in {<<>>, UsedResult} :
            DoDecompressBuffer("consumer", b, r)

MissGet ==
    /\ call.op = "decompress"
    /\ \E i \in 0..MaxIndex : DoGet(call.on, i)

NextMiss == MissDecompress \/ MissGet

SpecMiss == Init /\ [][NextMiss]_vars

\* ------------------------------------------------------------------------
\* The claims of the specification
\* ------------------------------------------------------------------------

\* C1: for every finite integer array v, compress(v) followed by
\* decompress on the same consecutive instance gives back v, every element
\* in its place.  Stated of SpecVerify: once the producer, a consecutive
\* codec, has decompressed the stream of its compress(array) into an empty
\* list, the list equals the array.
C1_RoundTripConsecutive ==
    (call.op = "decompress" /\ call.on = "producer" /\ producer.codec = "consecutive")
        => result = array

\* C1's case: a round trip of an array with a negative value whose stream
\* is longer than one word.
C1_Witness ==
    /\ call.op = "decompress" /\ call.on = "producer"
    /\ producer.codec = "consecutive"
    /\ AnyNegative(array)
    /\ Len(stream) >= 2
    /\ result = array

\* C2: for every finite integer array v, compress(v) followed by
\* decompress on the same non-consecutive instance gives back v.  Stated of
\* SpecVerify as C1 is, for the non-consecutive codec.
C2_RoundTripNonConsecutive ==
    (call.op = "decompress" /\ call.on = "producer" /\ producer.codec = "non_consecutive")
        => result = array

\* C3: for every finite integer array v, compress(v) followed by
\* decompress on the same overflow instance in consecutive layout gives
\* back v, however many values went to the overflow area.
C3_RoundTripOverflowConsecutive ==
    (/\ call.op = "decompress" /\ call.on = "producer"
     /\ producer.codec = "overflow" /\ producer.allow_consecutive)
        => result = array

\* C4: for every finite integer array v, compress(v) followed by
\* decompress on the same overflow instance in non-consecutive layout gives
\* back v, elements pushed to the next word included.
C4_RoundTripOverflowNonConsecutive ==
    (/\ call.op = "decompress" /\ call.on = "producer"
     /\ producer.codec = "overflow" /\ ~producer.allow_consecutive)
        => result = array

\* C5: for every non-empty array v, the stream of compress(v) on an
\* overflow codec, decoded by a fresh instance of the same configuration
\* that never compressed, gives back v, negative regular values included.
C5_FreshInstanceDecode ==
    (/\ call.op = "decompress" /\ call.on = "consumer"
     /\ producer.codec = "overflow" /\ array # <<>>)
        => result = array

\* C6: for every non-empty array v and every index i of it, after
\* compress(v) on a consecutive or a non-consecutive instance get(i)
\* returns v[i].
C6_GetPlain ==
    (call.op = "get" /\ producer.codec \in {"consecutive", "non_consecutive"})
        => call.ret = Return(array[call.i + 1])

\* C7: for every non-empty array v and every index i of it, after
\* compress(v) on an overflow instance in consecutive layout get(i) returns
\* v[i], whether the element is a regular value or an overflow reference.
C7_GetOverflowConsecutive ==
    (call.op = "get" /\ producer.codec = "overflow" /\ producer.allow_consecutive)
        => call.ret = Return(array[call.i + 1])

\* C7's case: get of an element stored as an overflow reference, behind
\* regular elements that fill the first word of the stream.
C7_Witness ==
    /\ call.op = "get"
    /\ producer.codec = "overflow" /\ producer.allow_consecutive
    /\ \E k \in 1..Len(producer.overflow_indices) : producer.overflow_indices[k] = call.i
    /\ \A k \in 1..Len(producer.overflow_indices) : producer.overflow_indices[k] # 0
    /\ SkipConsecutive(producer, call.i, [bit |-> 0, index |-> 0]).index >= 1
    /\ call.ret = Return(array[call.i + 1])

\* C8: for every non-empty array v and every index i of it, after
\* compress(v) on an overflow instance in non-consecutive layout get(i)
\* returns v[i].
C8_GetOverflowNonConsecutive ==
    (call.op = "get" /\ producer.codec = "overflow" /\ ~producer.allow_consecutive)
        => call.ret = Return(array[call.i + 1])

\* C9: for all arrays a and b, b possibly empty, after compress(a) followed
\* by compress(b) on one instance the instance is in the state of a fresh
\* instance after compress(b) alone.  Stated of Spec: when compress(array)
\* has just been called on an instance that was in the state compress(a)
\* leaves a new instance in, the instance equals a new one after
\* compress(array).
C9_RecompressOverwrites ==
    (/\ call.op = "compress"
     /\ \E a \in FreeInputs :
            call.before = CompressCall(NewInstance(producer.codec, producer.allow_consecutive),
                                       a).self)
        => producer = CompressCall(NewInstance(producer.codec, producer.allow_consecutive),
                                   array).self

\* C10: in every instance state and for every integer i, get(i) raises
\* IndexError when i < 0, when i >= original_length and when the instance
\* holds no compressed data, whatever the stream holds, and leaves the
\* instance as it was.
C10_GetOutOfRangeRaises ==
    (/\ call.op = "get"
     /\ \/ call.i < 0
        \/ call.i >= call.before.original_length
        \/ call.before.compressed_data = <<>>)
        => /\ call.ret = Raise("IndexError")
           /\ Instance(call.on) = call.before

\* C10's case: get(original_length) on an instance that holds a stream.
C10_Witness ==
    /\ call.op = "get"
    /\ call.before.compressed_data # <<>>
    /\ call.before.original_length > 0
    /\ call.i = call.before.original_length
    /\ call.ret = Raise("IndexError")
    /\ Instance(call.on) = call.before

\* C11: queries are read-only.  For every codec, once the instance has
\* compressed an array, a call of decompress, whatever the buffer, or of
\* get leaves every field of the instance as it was.
C11_QueriesReadOnly ==
    (call.op \in {"decompress", "get"} /\ call.on = "producer")
        => producer = call.before

\* C12: decoding by the overflow codec is driven by the format alone.  Two
\* overflow instances of the same layout, whatever each has done before,
\* decompress the same buffer into the same result: the result of a
\* decompress is the one the other instance gives for that buffer.
C12_FormatDrivenDecode ==
    (call.op = "decompress" /\ producer.codec = "overflow")
        => result = DecompressCall(IF call.on = "producer" THEN consumer ELSE producer,
                                   call.buffer, call.result_in).result

\* C13: for every non-empty array of length n and width k =
\* bits_per_element, compress of the consecutive codec returns
\* ceil(n * k / 32) words, compress of the non-consecutive codec returns
\* ceil(n / floor(32 / k)) words, which asks for floor(32 / k) >= 1, and
\* the non-consecutive stream is at least as long as the consecutive one.
C13_CompressedLength ==
    (call.op = "compress" /\ array # <<>> /\ producer.codec # "overflow")
        => \E n \in {Len(array)}, k \in {producer.bits_per_element} :
              IF producer.codec = "consecutive"
              THEN Len(stream) = (n * k + WordBits - 1) \div WordBits
              ELSE /\ WordBits \div k >= 1
                   /\ Len(stream) = (n + (WordBits \div k) - 1) \div (WordBits \div k)
                   /\ Len(stream) >= Len(ConsecutiveCompress(array).compressed_data)

\* C14 (as stated): for every non-empty array that is not all zeros, the
\* width k = bits_per_element that compress chooses is the smallest in
\* which every value, offset-encoded when the array holds a negative, fits:
\* each fits in k bits and, encoded for k - 1 bits (threshold 2^(k-2)), at
\* least one does not fit in k - 1 bits.
C14_WidthMinimalFits ==
    (call.op = "compress" /\ array # <<>> /\ producer.codec # "overflow"
        /\ MaxAbs(array) # Zero)
        => \E k \in {producer.bits_per_element}, neg \in {AnyNegative(array)} :
              /\ \A j \in 1..Len(array) : Len(OffsetEncode(array[j], k, neg).mag) <= k
              /\ \E j \in 1..Len(array) : Len(OffsetEncode(array[j], k - 1, neg).mag) > k - 1

\* C14 (amended): for every non-empty array that is not all zeros, the
\* width k = bits_per_element that compress chooses is the smallest in
\* which every value can be stored and told apart when read back: if the
\* array holds a negative, every magnitude |x| is at most 2^(k-1) - 1 (a
\* non-negative value stays below the threshold 2^(k-1) and an encoded
\* negative fits in k bits) and some magnitude exceeds 2^(k-2) - 1; if it
\* holds none, every value is below 2^k and some value is not below
\* 2^(k-1).
C14_WidthMinimal ==
    (call.op = "compress" /\ array # <<>> /\ producer.codec # "overflow"
        /\ MaxAbs(array) # Zero)
        => \E k \in {producer.bits_per_element} :
              IF AnyNegative(array)
              THEN /\ \A j \in 1..Len(array) : Len(array[j].mag) <= k - 1
                   /\ \E j \in 1..Len(array) : Len(array[j].mag) > k - 2
              ELSE /\ \A j \in 1..Len(array) : Len(array[j].mag) <= k
                   /\ \E j \in 1..Len(array) : Len(array[j].mag) > k - 1

\* compress has chosen the width 4 for [-3, 5], whose values, encoded for
\* 3 bits, are 7 and 5.
C14_Witness ==
    /\ call.op = "compress"
    /\ producer.codec # "overflow"
    /\ array = <<P(-3), P(5)>>
    /\ producer.bits_per_element = 4

\* C15: every element of the list compress returns, for each of the four
\* codecs and every array of signed 32-bit integers, is an unsigned 32-bit
\* word, an integer of [0, 2^32); the trailer and the overflow values the
\* overflow codec appends are among them.
C15_StreamWordsUnsigned32 ==
    call.op = "compress"
        => \A j \in 1..Len(stream) : ~IsNeg(stream[j]) /\ Len(stream[j].mag) <= WordBits

\* C16: when decompress of the overflow codec is given a non-empty buffer
\* that holds no marker 0xFFFFFFFF followed by five metadata words passing
\* the sanity checks, it appends nothing to result (the list is as the
\* caller passed it, an empty one stays empty) and leaves every field of
\* the instance as it was.
C16_MalformedTrailer ==
    (/\ call.op = "decompress"
     /\ call.before.codec = "overflow"
     /\ call.buffer # <<>>
     /\ ~\E j \in 0..(Len(call.buffer) - 1) :
            /\ call.buffer[j + 1] = Marker
            /\ j + 5 < Len(call.buffer)
            /\ TrailerValid(call.buffer, j))
        => result = call.result_in /\ Instance(call.on) = call.before

\* An overflow instance that has compressed was given a buffer whose marker
\* is followed by a value width of 33, with a result list holding an
\* element.
C16_Witness ==
    /\ call.op = "decompress"
    /\ call.on = "producer"
    /\ call.before.codec = "overflow"
    /\ call.before.original_length > 0
    /\ call.buffer = <<P(6), Marker, One, Zero, P(33), Zero, Zero>>
    /\ call.result_in = UsedResult
    /\ result = UsedResult

\* C17: decompress does nothing when there is nothing to decode: given an
\* empty buffer, on any codec, or called on a consecutive or
\* non-consecutive instance whose original_length is zero, with any
\* buffer, it leaves the result list and every field of the instance as
\* they were.
C17_DecompressNoOp ==
    (/\ call.op = "decompress"
     /\ \/ call.buffer = <<>>
        \/ call.before.codec # "overflow" /\ call.before.original_length = 0)
        => result = call.result_in /\ Instance(call.on) = call.before

\* A consecutive or non-consecutive instance that never compressed was
\* given a buffer that is not empty and a result list holding an element.
C17_Witness ==
    /\ call.op = "decompress"
    /\ call.on = "consumer"
    /\ call.before.codec # "overflow"
    /\ call.before.original_length = 0
    /\ call.buffer # <<>>
    /\ call.result_in = UsedResult
    /\ result = UsedResult
    /\ consumer = call.before

\* The provisional outliers of the caller's array: the positions (from 1)
\* of the values wider than the median width plus max(3, median // 2).
C18_Provisional ==
    LET bits == [k \in 1..Len(array) |-> BitsRequired(array[k])]
        median == Sorted(bits)[(Len(array) \div 2) + 1]
    IN  {k \in 1..Len(array) : bits[k] > median + Max(MinGap, median \div 2)}

\* The outliers are more than 30% of the array and the cost with the split,
\* (regular_width + 1) * n + overflow_count * 32, exceeds the cost without,
\* max_width * n.
C18_Costly ==
    LET n == Len(array)
        count == Cardinality(C18_Provisional)
        regular_width == MaxOf(SelectSeq2([k \in 1..n |-> BitsRequired(array[k])],
                                          [k \in 1..n |-> k \notin C18_Provisional], 1), 1)
        max_width == MaxOf([k \in 1..n |-> BitsRequired(array[k])], 0)
    IN  /\ 10 * count > RatioTenths * n
        /\ (regular_width + 1) * n + count * WordBits > max_width * n

\* The flag bit of element j (from 0) of a stream whose elements all have
\* 1 + value_bits bits: in the consecutive layout the elements follow each
\* other bit after bit; in the other, floor(32 / size) of them share a
\* word, or each has its own word after an empty one when none fits.
C18_Flag(j) ==
    LET size == 1 + producer.value_bits
        per_word == WordBits \div size
    IN  IF producer.allow_consecutive
        THEN extract_bits(stream[((j * size) \div WordBits) + 1], (j * size) % WordBits, 1)
        ELSE IF per_word = 0 THEN extract_bits(stream[j + 2], 0, 1)
        ELSE extract_bits(stream[(j \div per_word) + 1], (j % per_word) * size, 1)

C19_FactorySelection ==
    call.op = "create"
        => IF \E tag \in Variants : call.tag \in Spellings(tag)
           THEN /\ call.ret.raised = "none"
                /\ producer = call.ret.value
                /\ \A tag \in Variants :
                      call.tag \in Spellings(tag)
                          => /\ producer.codec =
                                    CASE tag = "consecutive" -> "consecutive"
                                      [] tag = "non_consecutive" -> "non_consecutive"
                                      [] tag = "overflow_consecutive" -> "overflow"
                                      [] tag = "overflow_non_consecutive" -> "overflow"
                             /\ tag = "overflow_consecutive" => producer.allow_consecutive
                             /\ tag = "overflow_non_consecutive" => ~producer.allow_consecutive
                /\ producer.original_length = 0
                /\ producer.compressed_data = <<>>
                /\ producer.bits_per_element = 0
                /\ producer.has_negative_numbers = FALSE
                /\ producer.overflow_area = <<>>
                /\ producer.overflow_indices = <<>>
                /\ producer.bits_for_overflow_index = 0
                /\ producer.value_bits = 0
           ELSE /\ call.ret.raised = "ValueError"
                /\ call.ret.value.available =
                       <<"consecutive", "non_consecutive", "overflow_consecutive",
                         "overflow_non_consecutive">>
                /\ producer = call.before

\* A caller whose codec had compressed asked for "\t\nOVERFLOW_NON_CONSECUTIVE "
\* and got an overflow codec of the non-consecutive layout with nothing
\* compressed.
C19_Witness ==
    /\ call.op = "create"
    /\ call.before.original_length > 0
    /\ call.tag \in Spellings("overflow_non_consecutive")
    /\ call.tag[1] = "\t"
    /\ call.tag[3] = "O"
    /\ call.tag[4] = "V"
    /\ call.tag[Len(call.tag)] = " "
    /\ call.ret.raised = "none"
    /\ producer.codec = "overflow"
    /\ ~producer.allow_consecutive
    /\ producer.original_length = 0

\* C20: when create is given a spelling of "overflow_consecutive" or
\* "overflow_non_consecutive" and an allow_consecutive argument that is not
\* None, the codec returned has that allow_consecutive; with None the tag
\* decides the layout.
C20_FactoryOverride ==
    (/\ call.op = "create"
     /\ call.tag \in Spellings("overflow_consecutive") \cup Spellings("overflow_non_consecutive"))
        => /\ call.ret.raised = "none"
           /\ call.ret.value.codec = "overflow"
           /\ call.ret.value.allow_consecutive =
                  IF call.allow_consecutive = "None"
                  THEN call.tag \in Spellings("overflow_consecutive")
                  ELSE call.allow_consecutive = "True"

\* C21: the width compress computes for a non-empty array of largest
\* magnitude m is 1 when m = 0; without a negative value it is the smallest
\* k >= 1 with m < 2^k, which is floor(log2(m)) + 1; with a negative value
\* it is one more than the smallest j with m + 1 <= 2^j, which is
\* ceil(log2(m + 1)) + 1, so that m <= 2^(k-1) - 1.
C21_WidthCalculator ==
    (call.op = "compress" /\ array # <<>> /\ producer.codec # "overflow")
        => \E k \in {producer.bits_per_element}, m \in {MaxAbs(array)} :
              IF m = Zero THEN k = 1
              ELSE IF ~AnyNegative(array)
              THEN /\ k >= 1
                   /\ PyLess(m, Shl(One, k))
                   /\ PyLeq(Shl(One, k - 1), m)
              ELSE /\ k >= 2
                   /\ PyLeq(PyAdd(m, One), Shl(One, k - 1))
                   /\ PyLess(Shl(One, k - 2), PyAdd(m, One))
                   /\ PyLeq(m, PySub(Shl(One, k - 1), One))

\* compress has computed the width 4 for [-5, -3, -1, 0, 1, 3, 5], whose
\* largest magnitude is 5: 5 + 1 <= 2^3 and not <= 2^2.
C21_Witness ==
    /\ call.op = "compress"
    /\ producer.codec # "overflow"
    /\ array = <<P(-5), P(-3), P(-1), P(0), P(1), P(3), P(5)>>
    /\ MaxAbs(array) = P(5)
    /\ producer.bits_per_element = 4

\* C22: with has_negative_numbers set, width k and threshold 2^(k-1), a
\* value x >= 0 is stored as x and a value x < 0 as threshold + |x|; a
\* stored s <= threshold - 1 decodes to s and a stored s > threshold - 1 to
\* -(s - threshold), so threshold itself decodes to 0; and for every x with
\* |x| <= 2^(k-1) - 1 the stored value is in [0, 2^k) and decodes to x.
C22_SignedOffsetEncoding ==
    (/\ call.op = "compress"
     /\ array # <<>>
     /\ producer.codec # "overflow"
     /\ producer.has_negative_numbers)
        => \E k \in {producer.bits_per_element} :
           \E threshold \in {Shl(One, k - 1)} :
              /\ OffsetDecode(threshold, k, TRUE) = Zero
              /\ \A x \in Vals \cup {array[j] : j \in 1..Len(array)} :
                    PyLeq(PyAbs(x), PySub(threshold, One))
                        => \E s \in {OffsetEncode(x, k, TRUE)} :
                              /\ s = IF IsNeg(x) THEN PyAdd(threshold, PyAbs(x)) ELSE x
                              /\ PyLeq(Zero, s) /\ PyLess(s, Shl(One, k))
                              /\ OffsetDecode(s, k, TRUE) =
                                     IF PyLeq(s, PySub(threshold, One)) THEN s
                                     ELSE PyNeg(PySub(s, threshold))
                              /\ OffsetDecode(s, k, TRUE) = x

\* compress has packed [2^31 - 1, -3] with the width 32: the first value
\* is threshold - 1 and is stored as it is, the second as 2^31 + 3.
C22_Witness ==
    /\ call.op = "compress"
    /\ producer.codec # "overflow"
    /\ producer.has_negative_numbers
    /\ array = <<MaxInt32, P(-3)>>
    /\ producer.bits_per_element = 32
    /\ OffsetEncode(array[2], 32, TRUE) = PyAdd(Shl(One, 31), P(3))
    /\ OffsetEncode(array[1], 32, TRUE) = PySub(Shl(One, 31), One)

\* The unsigned width of the magnitude of each value of the caller's array,
\* 1 for 0.
C23_Widths ==
    [k \in 1..Len(array) |-> IF array[k].mag = <<>> THEN 1 ELSE Len(array[k].mag)]

\* The element at position n div 2 (from 0) of the sorted widths: the width
\* with at most n div 2 widths below it and more than n div 2 not above it.
C23_Median ==
    CHOOSE m \in {C23_Widths[k] : k \in 1..Len(array)} :
        /\ Cardinality({k \in 1..Len(array) : C23_Widths[k] < m}) <= Len(array) \div 2
        /\ Cardinality({k \in 1..Len(array) : C23_Widths[k] <= m}) > Len(array) \div 2

\* The positions (from 1) of the values wider than
\* median + max(3, median div 2).
C23_Outliers ==
    {k \in 1..Len(array) :
        C23_Widths[k] > C23_Median + (IF C23_Median \div 2 > 3 THEN C23_Median \div 2 ELSE 3)}

\* C23: the partition the overflow codec's compress makes is a function of
\* the array alone: an instance that had compressed another array before
\* makes the same one; a value is a provisional outlier exactly when its
\* width exceeds median + max(3, median div 2), so that an overflow area
\* that is not empty holds exactly those values, at their positions, in
\* the order of the array, and an array without such a value gets an empty
\* overflow area.
C23_ClassificationRule ==
    (call.op = "compress" /\ producer.codec = "overflow" /\ array # <<>>)
        => /\ C23_Outliers = {} => producer.overflow_area = <<>>
           /\ producer.overflow_area # <<>>
                  => /\ Len(producer.overflow_area) = Cardinality(C23_Outliers)
                     /\ Len(producer.overflow_indices) = Cardinality(C23_Outliers)
                     /\ \A j \in 1..Len(producer.overflow_indices) :
                           /\ producer.overflow_indices[j] + 1 \in C23_Outliers
                           /\ producer.overflow_area[j] = array[producer.overflow_indices[j] + 1]
                           /\ j > 1 => producer.overflow_indices[j - 1]
                                           < producer.overflow_indices[j]
           /\ \A h \in FreeInputs :
                 \E used \in {CompressCall(CompressCall(Create(TagOf(producer)), h).self,
                                           array).self} :
                     /\ used.overflow_area = producer.overflow_area
                     /\ used.overflow_indices = producer.overflow_indices

\* compress has split [1, 2, 3, 1024, 4, 5, 2048], the array of
\* exemple_overflow: median width 3, threshold 6, the values 1024 and 2048
\* in the overflow area in that order.
C23_Witness ==
    /\ call.op = "compress"
    /\ producer.codec = "overflow"
    /\ array = <<P(1), P(2), P(3), P(1024), P(4), P(5), P(2048)>>
    /\ C23_Median = 3
    /\ C23_Outliers = {4, 7}
    /\ producer.overflow_area = <<P(1024), P(2048)>>
    /\ producer.overflow_indices = <<3, 6>>

\* C24: after compress on the overflow codec with overflow_count values in
\* the overflow area, bits_for_overflow_index is 0 when overflow_count = 0,
\* 1 when overflow_count = 1 and ceil(log2(overflow_count)) when
\* overflow_count >= 2: the b with 2^(b-1) < overflow_count <= 2^b.
C24_OverflowIndexWidth ==
    (call.op = "compress" /\ producer.codec = "overflow" /\ array # <<>>)
        => \E count \in {Len(producer.overflow_area)}, b \in {producer.bits_for_overflow_index} :
              CASE count = 0 -> b = 0
                [] count = 1 -> b = 1
                [] OTHER -> b >= 1 /\ 2^(b - 1) < count /\ count <= 2^b

\* The packed main stream of the list compress returned: what precedes the
\* six words of the trailer and the overflow values.
C25_Main == SubSeq(stream, 1, Len(stream) - 6 - Len(producer.overflow_area))

\* Element i (from 0) of the consecutive layout is found at bit start of
\* the main stream: its flag bit there, 1 for an overflow reference, and
\* after it the index into the overflow area on bits_for_overflow_index
\* bits, or the stored value on value_bits bits.
C25_ElementAt(i, start) ==
    LET flag == read_bits_consecutive(C25_Main, 1, start % WordBits, start \div WordBits)
        slot == OverflowMapAt(producer.overflow_indices, i, 1)
    IN  IF slot # -1
        THEN /\ flag = One
             /\ read_bits_consecutive(C25_Main, producer.bits_for_overflow_index,
                                      (start + 1) % WordBits, (start + 1) \div WordBits)
                    = P(slot)
        ELSE /\ flag = Zero
             /\ read_bits_consecutive(C25_Main, producer.value_bits,
                                      (start + 1) % WordBits, (start + 1) \div WordBits)
                    = OffsetEncode(array[i + 1], producer.value_bits,
                                   producer.has_negative_numbers)

RECURSIVE C25_StartOf(_)
\* The bits the elements before element i take, each 1 + value_bits bits
\* when regular and 1 + bits_for_overflow_index bits when a reference.
C25_StartOf(i) ==
    IF i = 0 THEN 0
    ELSE C25_StartOf(i - 1) + 1
             + (IF OverflowMapAt(producer.overflow_indices, i - 1, 1) # -1
                THEN producer.bits_for_overflow_index ELSE producer.value_bits)

C26_Size(i) ==
    1 + (IF OverflowMapAt(producer.overflow_indices, i, 1) # -1
         THEN producer.bits_for_overflow_index ELSE producer.value_bits)

RECURSIVE C26_Place(_)
\* Where element i is written: after the element before it, or at bit 0 of
\* the next word when it would pass the end of the word.
C26_Place(i) ==
    LET after == IF i = 0 THEN [word |-> 0, bit |-> 0]
                 ELSE [word |-> C26_Place(i - 1).word,
                       bit |-> C26_Place(i - 1).bit + C26_Size(i - 1)]
    IN  IF after.bit + C26_Size(i) > WordBits
        THEN [word |-> after.word + 1, bit |-> 0]
        ELSE after

\* C26: in the non-consecutive layout of the overflow codec, for every
\* array of signed 32-bit integers, each element is written as a flag bit
\* and its own payload (value_bits bits, or bits_for_overflow_index bits
\* for a reference) inside one 32-bit word; an element that would pass the
\* end of the current word starts at bit 0 of a new one, and the bits of a
\* word after its last element are zero.
C26_ElementsWithinWords ==
    (/\ call.op = "compress"
     /\ producer.codec = "overflow"
     /\ ~producer.allow_consecutive
     /\ array # <<>>)
        => \E main \in {SubSeq(stream, 1, Len(stream) - 6 - Len(producer.overflow_area))} :
              /\ Len(main) = C26_Place(Len(array) - 1).word + 1
              /\ \A i \in 0..(Len(array) - 1) :
                    \E p \in {C26_Place(i)}, slot \in {OverflowMapAt(producer.overflow_indices, i, 1)} :
                       /\ p.bit + C26_Size(i) <= WordBits
                       /\ extract_bits(main[p.word + 1], p.bit, 1)
                              = IF slot # -1 THEN One ELSE Zero
                       /\ extract_bits(main[p.word + 1], p.bit + 1, C26_Size(i) - 1)
                              = IF slot # -1 THEN P(slot)
                                ELSE OffsetEncode(array[i + 1], producer.value_bits,
                                                  producer.has_negative_numbers)
                       /\ (i = Len(array) - 1 \/ C26_Place(i + 1).word > p.word)
                              => Len(main[p.word + 1].mag) <= p.bit + C26_Size(i)

\* C27: for every non-empty array, with or without overflow values, the
\* list the overflow codec's compress returns is the packed main stream
\* followed by exactly the word 0xFFFFFFFF, the number of elements, the
\* size of the overflow area, value_bits, bits_for_overflow_index, the
\* number of overflow indices and then the overflow values in order: its
\* length is the words of the main stream + 6 + overflow_count.
C27_TrailerLayout ==
    (call.op = "compress" /\ producer.codec = "overflow" /\ array # <<>>)
        => \E count \in {Cardinality(C23_Outliers)} :
           \E kept \in {IF producer.overflow_area = <<>> THEN 0 ELSE count} :
           \E words \in {IF producer.allow_consecutive
                         THEN (C25_StartOf(Len(array)) + WordBits - 1) \div WordBits
                         ELSE C26_Place(Len(array) - 1).word + 1} :
              /\ Len(stream) = words + 6 + kept
              /\ SubSeq(stream, words + 1, words + 6)
                     = <<Marker, P(Len(array)), P(kept), P(producer.value_bits),
                         P(producer.bits_for_overflow_index), P(kept)>>
              /\ \A j \in 1..kept :
                    stream[words + 6 + j] = array[producer.overflow_indices[j] + 1]
              /\ Len(producer.overflow_indices) = kept

\* compress has returned, for [256, 256, 8192, 256], one word of packed
\* elements, the six words of the trailer and the overflow value 8192.
C27_Witness ==
    /\ call.op = "compress"
    /\ producer.codec = "overflow"
    /\ array = <<P(256), P(256), P(8192), P(256)>>
    /\ Len(stream) = 8
    /\ SubSeq(stream, 2, 8) = <<Marker, P(4), P(1), P(9), P(1), P(1), P(8192)>>

\* The instance after compress(a) on a fresh instance of the producer's kind.
C28_After(a) == CompressCall(Create(TagOf(producer)), a).self

\* The overflow slot the element at 0-based position i of a refers to, or -1
\* for a regular element: the number of outliers before it.
C28_Slot(a, i) ==
    LET overflow_indices == C28_After(a).overflow_indices
    IN  IF \E j \in 1..Len(overflow_indices) : overflow_indices[j] = i
        THEN Cardinality({j \in 1..Len(overflow_indices) : overflow_indices[j] < i})
        ELSE -1

\* What the claim says a stream of a with keep overflow values decodes to.
C28_Expected(a, keep) ==
    [i \in 1..Len(a) |-> IF C28_Slot(a, i - 1) >= keep THEN Zero ELSE a[i]]

\* The instance get was called on holds what decompress keeps of the stream
\* of a with keep overflow values: the main stream and the shortened area.
C28_Holds(a, keep) ==
    /\ call.before.original_length = Len(a)
    /\ call.before.compressed_data \o <<Marker>>
          = SubSeq(Shorten(C28_After(a), keep), 1, Len(call.before.compressed_data) + 1)
    /\ call.before.overflow_area = SubSeq(C28_After(a).overflow_area, 1, keep)
    /\ Len(call.before.overflow_area) = keep

\* C28: when an element's flag bit is 1 and the overflow index decoded from
\* its payload is at or past the end of the overflow area read from the
\* trailer, decompress appends 0 for that element and goes on decoding the
\* following elements, get returns 0 for it, and neither raises.
C28_OverflowIndexMiss ==
    \A a \in MissArrays, keep \in 0..1 :
        /\ (/\ call.op = "decompress"
            /\ call.buffer = Shorten(C28_After(a), keep))
           => /\ Len(result) = Len(a)
              /\ result = C28_Expected(a, keep)
        /\ (/\ call.op = "get"
            /\ call.i < Len(a)
            /\ C28_Holds(a, keep))
           => call.ret = Return(C28_Expected(a, keep)[call.i + 1])

\* A stream whose first outlier is in the area and whose second is not has
\* been decoded, the element after the missed one included, and get has
\* been asked for the missed element.
C28_Witness ==
    LET a == <<P(1), Shl(One, 20), P(3), Shl(One, 20), P(2)>>
    IN  /\ call.op = "get"
        /\ call.i = 3
        /\ C28_Holds(a, 1)
        /\ C28_Slot(a, 3) = 1
        /\ call.ret = Return(Zero)
        /\ result = <<P(1), Shl(One, 20), P(3), Zero, P(2)>>

\* C29: after compress of a non-empty array by the overflow codec at least
\* one value is regular: the outliers number at most n - (n div 2) - 1, the
\* all-overflow setting (value_bits 1 with every position an overflow
\* index) is not the one made, the overflow area is as long as the list of
\* overflow indices, its j-th value is the input's value at the j-th
\* overflow index, and the overflow indices are strictly increasing.
C29_SomeRegularValue ==
    (call.op = "compress" /\ producer.codec = "overflow" /\ array # <<>>)
        => LET n == Len(array)
               overflow_indices == producer.overflow_indices
               count == Len(overflow_indices)
           IN  /\ Len(producer.overflow_area) = count
               /\ count <= n - (n \div 2) - 1
               /\ count < n
               /\ ~(producer.value_bits = 1 /\ overflow_indices = [k \in 1..n |-> k - 1])
               /\ \A j \in 1..count :
                      /\ overflow_indices[j] \in 0..(n - 1)
                      /\ producer.overflow_area[j] = array[overflow_indices[j] + 1]
               /\ \A j \in 1..(count - 1) : overflow_indices[j] < overflow_indices[j + 1]
               /\ \E k \in 1..n : \A j \in 1..count : overflow_indices[j] # k - 1

\* compress has kept two outliers among five values, the most the bound
\* allows: 5 - (5 div 2) - 1 = 2.
C29_Witness ==
    /\ call.op = "compress"
    /\ producer.codec = "overflow"
    /\ array = <<P(-94), P(-94), Shl(One, 20), P(-94), Shl(One, 20)>>
    /\ producer.overflow_indices = <<2, 4>>
    /\ producer.overflow_area = <<Shl(One, 20), Shl(One, 20)>>
    /\ Len(producer.overflow_indices) = Len(array) - (Len(array) \div 2) - 1

\* The width compress has computed: value_bits in the overflow codec,
\* bits_per_element in the other two.
C30_Width ==
    IF producer.codec = "overflow" THEN producer.value_bits ELSE producer.bits_per_element

\* C30: after compress of a non-empty array whose values all lie in
\* [-2^31, 2^31 - 1] the width compress computed is between 1 and 32, so
\* that in the non-consecutive codec 32 div bits_per_element is at least 1.
C30_WidthWithinWord ==
    (/\ call.op = "compress"
     /\ array # <<>>
     /\ \A k \in 1..Len(array) : PyLeq(MinInt32, array[k]) /\ PyLeq(array[k], MaxInt32))
        => /\ C30_Width \in 1..WordBits
           /\ producer.codec = "non_consecutive" => WordBits \div producer.bits_per_element >= 1

====
